---- MODULE Spec2Model ----
(***************************************************************************)
(* The image pipeline of admin/image_processor.py (ImageProcessor):        *)
(* validate_image, generate_filename, resize_image, inject_seo_metadata,   *)
(* process_single_resolution and process_all_resolutions, as a state       *)
(* machine over one source file, one metadata argument and the output      *)
(* directory.  One action per step of process_single_resolution, so that   *)
(* an exception can be raised at each of them.                             *)
(***************************************************************************)
EXTENDS Integers, Naturals, Sequences, FiniteSets, TLC

(***************************************************************************)
(* Python floats.  `height / width` is a correctly rounded binary64        *)
(* division of two ints, `target_width * current_ratio` and                *)
(* `target_height / current_ratio` are correctly rounded binary64          *)
(* operations, int() truncates.  TLC's integers are 32 bits wide, so a     *)
(* 53-bit mantissa is kept as eight 15-bit limbs, least significant first; *)
(* a double is [m |-> mantissa of exactly MantBits bits, e |-> exponent]   *)
(* and stands for m * 2^e.  Only positive finite values occur.             *)
(***************************************************************************)
LimbBits == 15
LimbBase == 2^LimbBits
NumLimbs == 8
Limbs == 1..NumLimbs

BigOfInt(n) ==
    <<n % LimbBase, (n \div LimbBase) % LimbBase, n \div (LimbBase * LimbBase), 0, 0, 0, 0, 0>>

BigToInt(a) == a[1] + (LimbBase * a[2]) + (LimbBase * LimbBase * a[3])

BigIsZero(a) == \A i \in Limbs : a[i] = 0

BigLimb(a, i) == IF i \in Limbs THEN a[i] ELSE 0

BigShl1Plus(a, bit) ==
    LET limb(i) == ((2 * a[i]) % LimbBase)
                   + (IF i = 1 THEN bit ELSE (a[i-1] \div (LimbBase \div 2)))
    IN  <<limb(1), limb(2), limb(3), limb(4), limb(5), limb(6), limb(7), limb(8)>>

BigLowLess(a, b, n) ==
    \E k \in 1..n : a[k] < b[k] /\ \A j \in (k+1)..n : a[j] = b[j]

BigLess(a, b) == BigLowLess(a, b, NumLimbs)

BigSub(a, b) ==
    LET limb(i) == (a[i] - b[i] - (IF BigLowLess(a, b, i-1) THEN 1 ELSE 0) + LimbBase) % LimbBase
    IN  <<limb(1), limb(2), limb(3), limb(4), limb(5), limb(6), limb(7), limb(8)>>

BigMulSmall(a, k) ==
    LET p1 == a[1] * k
        p2 == (a[2] * k) + (p1 \div LimbBase)
        p3 == (a[3] * k) + (p2 \div LimbBase)
        p4 == (a[4] * k) + (p3 \div LimbBase)
        p5 == (a[5] * k) + (p4 \div LimbBase)
        p6 == (a[6] * k) + (p5 \div LimbBase)
        p7 == (a[7] * k) + (p6 \div LimbBase)
        p8 == (a[8] * k) + (p7 \div LimbBase)
    IN  <<p1 % LimbBase, p2 % LimbBase, p3 % LimbBase, p4 % LimbBase,
          p5 % LimbBase, p6 % LimbBase, p7 % LimbBase, p8 % LimbBase>>

BigInc(a) ==
    LET limb(i) == (a[i] + (IF \A j \in 1..(i-1) : a[j] = LimbBase - 1 THEN 1 ELSE 0)) % LimbBase
    IN  <<limb(1), limb(2), limb(3), limb(4), limb(5), limb(6), limb(7), limb(8)>>

SmallBitLen(n) == CHOOSE k \in 0..LimbBits : n < (2^k) /\ (k = 0 \/ n >= (2^(k-1)))

BigBitLen(a) ==
    IF BigIsZero(a) THEN 0
    ELSE LET t == CHOOSE i \in Limbs : a[i] # 0 /\ \A j \in (i+1)..NumLimbs : a[j] = 0
         IN  (LimbBits * (t - 1)) + SmallBitLen(a[t])

BigShr(a, n) ==
    LET q == n \div LimbBits
        r == n % LimbBits
        limb(i) == (BigLimb(a, i + q) \div (2^r))
                   + ((BigLimb(a, i + q + 1) % (2^r)) * (2^(LimbBits - r)))
    IN  <<limb(1), limb(2), limb(3), limb(4), limb(5), limb(6), limb(7), limb(8)>>

BigShl(a, n) ==
    LET q == n \div LimbBits
        r == n % LimbBits
        limb(i) == ((BigLimb(a, i - q) * (2^r)) % LimbBase)
                   + (BigLimb(a, i - q - 1) \div (2^(LimbBits - r)))
    IN  <<limb(1), limb(2), limb(3), limb(4), limb(5), limb(6), limb(7), limb(8)>>

BigBit(a, k) == (a[(k \div LimbBits) + 1] \div (2^(k % LimbBits))) % 2

BigLowNonzero(a, k) ==
    \/ \E i \in 1..(k \div LimbBits) : a[i] # 0
    \/ (a[(k \div LimbBits) + 1] % (2^(k % LimbBits))) # 0

MantBits == 53

RoundDouble(n, e, sticky) ==
    LET len == BigBitLen(n)
    IN  IF len <= MantBits
        THEN [m |-> BigShl(n, MantBits - len), e |-> e - (MantBits - len)]
        ELSE LET d  == len - MantBits
                 q  == BigShr(n, d)
                 up == /\ BigBit(n, d - 1) = 1
                       /\ (sticky \/ BigLowNonzero(n, d - 1) \/ BigBit(q, 0) = 1)
                 m1 == IF up THEN BigInc(q) ELSE q
             IN  IF BigBitLen(m1) > MantBits
                 THEN [m |-> BigShr(m1, 1), e |-> e + d + 1]
                 ELSE [m |-> m1, e |-> e + d]

IntTrueDiv(a, b) ==
    LET r0 == a % b
        f1 == r0 * LimbBase
        f2 == (f1 % b) * LimbBase
        f3 == (f2 % b) * LimbBase
        f4 == (f3 % b) * LimbBase
        f5 == (f4 % b) * LimbBase
    IN  RoundDouble(<<f5 \div b, f4 \div b, f3 \div b, f2 \div b, f1 \div b, a \div b, 0, 0>>,
                    0 - (5 * LimbBits), (f5 % b) # 0)

FloatMulInt(k, x) == RoundDouble(BigMulSmall(x.m, k), x.e, FALSE)

QuotBits == 110
RECURSIVE BigDivBits(_, _, _, _)
BigDivBits(r, b, q, steps) ==
    IF steps = 0 \/ q[1] < 0 THEN [q |-> q, r |-> r]
    ELSE LET r2  == BigShl1Plus(r, 0)
             bit == IF BigLess(r2, b) THEN 0 ELSE 1
         IN  BigDivBits(IF bit = 1 THEN BigSub(r2, b) ELSE r2, b,
                        BigShl1Plus(q, bit), steps - 1)

IntDivFloat(k, x) ==
    LET d == BigDivBits(BigOfInt(k), x.m, BigOfInt(0), QuotBits)
    IN  RoundDouble(d.q, 0 - QuotBits - x.e, ~BigIsZero(d.r))

FloatTrunc(x) == IF 0 - x.e >= MantBits THEN 0 ELSE BigToInt(BigShr(x.m, 0 - x.e))

FloatLess(x, y) == x.e < y.e \/ (x.e = y.e /\ BigLess(x.m, y.m))

(***************************************************************************)
(* Bounds of the model.                                                    *)
(***************************************************************************)
\* Source widths and heights are the multiples of DimStep up to these many steps.
DimStep == 50
MaxWidthSteps == 12
MaxHeightSteps == 16
\* The number of steps of one invocation at which the environment makes a
\* library call raise (a codec error, an I/O error).
MaxFaults == 4
MaxTags == 7
MaxChanges == 2
MaxRuns == 2
InjectFaults == 1
MaxTicks == 1

(***************************************************************************)
(* __init__: the resolution table and the supported formats.               *)
(***************************************************************************)
\* self.resolutions.keys(), in insertion order
ResolutionOrder == <<"thumbnail", "medium", "large", "original">>

\* 'original' has width None and height None: 0 stands for None
resolutions ==
    [thumbnail |-> [width |-> 150, height |-> 200, quality |-> 95],
     medium    |-> [width |-> 400, height |-> 533, quality |-> 95],
     large     |-> [width |-> 720, height |-> 960, quality |-> 95],
     original  |-> [width |-> 0,   height |-> 0,   quality |-> 95]]

supported_formats ==
    {".jpg", ".jpeg", ".png", ".bmp", ".tiff", ".tif", ".webp", ".heic", ".heif"}

(***************************************************************************)
(* The inputs: a source file and a metadata argument.                      *)
(***************************************************************************)
\* Path(...).suffix of the paths the model draws from, as written on disk
Suffixes ==
    supported_formats \cup {".JPG", ".PNG", ".gif", ".txt"}

\* str.lower() on those suffixes
Lower(s) ==
    CASE s = ".JPG" -> ".jpg"
      [] s = ".PNG" -> ".png"
      [] OTHER      -> s

GridSizes ==
    {<<DimStep * i, DimStep * j>> : i \in 1..MaxWidthSteps, j \in 1..MaxHeightSteps}

\* sizes the repository's documentation names, and one on which tw * (h / w)
\* is not the exact quotient
ExampleSizes == {<<1080, 1920>>, <<500, 400>>, <<400, 533>>, <<100, 138>>}

\* A source file: whether the path exists, its suffix, whether Pillow can
\* open and verify it, its pixel size (0 x 0 when there is no image in it) and
\* the MD5 of its bytes.
MissingSources ==
    [exists : {FALSE}, suffix : Suffixes, decodable : {FALSE},
     width : {0}, height : {0}, digest : {0}]

CorruptSources ==
    [exists : {TRUE}, suffix : Suffixes, decodable : {FALSE},
     width : {0}, height : {0}, digest : {1}]

ImageSources(sizes, suffixes) ==
    {[exists |-> TRUE, suffix |-> x, decodable |-> TRUE,
      width |-> s[1], height |-> s[2], digest |-> 1] : s \in sizes, x \in suffixes}

\* Python values: a str is the sequence of its words, a list the sequence of
\* its items
PyNone == [type |-> "NoneType", value |-> <<>>]
PyStr(words) == [type |-> "str", value |-> words]
PyInt(n) == [type |-> "int", value |-> n]
PyList(items) == [type |-> "list", value |-> items]

\* bool(v) for the values above, and for a dict (a function on its keys)
Truthy(v) ==
    IF v = <<>> THEN FALSE
    ELSE IF "type" \notin DOMAIN v THEN TRUE
    ELSE CASE v.type = "NoneType" -> FALSE
           [] v.type = "int"      -> v.value # 0
           [] OTHER               -> v.value # <<>>

\* str(v) as an f-string renders it
Format(v) ==
    CASE v.type = "str"      -> v.value
      [] v.type = "NoneType" -> <<"None">>
      [] v.type = "int"      -> <<"int", v.value>>
      [] OTHER               -> <<"list">>

\* d.get(key, default)
Get(d, key, default) == IF key \in DOMAIN d THEN d[key] ELSE default

\* the tags callers pass, in the order they pass them
TagPool ==
    <<PyStr(<<"sunset">>), PyStr(<<"beach">>), PyStr(<<"4k">>), PyStr(<<"amoled">>),
      PyStr(<<"dark">>), PyStr(<<"sea">>), PyStr(<<"sky">>), PyStr(<<"sand">>),
      PyStr(<<"sun">>)>>

Reverse(seq) == [i \in 1..Len(seq) |-> seq[Len(seq) + 1 - i]]

\* tag lists: the first n tags of the pool, the same backwards, and a list
\* with an item that is no string
TagLists ==
    {SubSeq(TagPool, 1, n) : n \in 0..MaxTags}
        \cup {Reverse(SubSeq(TagPool, 1, n)) : n \in 2..MaxTags}
        \cup {<<TagPool[1], PyNone, TagPool[2]>>}

\* a key that the dict does not have
Missing == [type |-> "missing", value |-> <<>>]

\* the dict with the keys of choice whose value is not Missing
DictOf(choice) ==
    [k \in {key \in DOMAIN choice : choice[key] # Missing} |-> choice[k]]

\* the dicts callers pass as wallpaper_metadata, well-formed or not
MetadataDicts ==
    {DictOf(c) : c \in
        [title : {Missing, PyStr(<<"Sunset">>)},
         description : {Missing, PyStr(<<"A", "sunset">>), PyNone},
         category : {Missing, PyStr(<<"nature">>), PyNone},
         tags : {Missing, PyNone, PyInt(5)} \cup {PyList(l) : l \in TagLists}]}

\* a dict with the four fields as the publishers build it
FullDict ==
    [title |-> PyStr(<<"Sunset">>), description |-> PyStr(<<"A", "sunset">>),
     category |-> PyStr(<<"nature">>),
     tags |-> PyList(SubSeq(TagPool, 1, 2))]

\* wallpaper_metadata: None, an empty dict, or a dict with the four fields
MetadataArgs == {PyNone, <<>>, FullDict}

(***************************************************************************)
(* validate_image                                                          *)
(***************************************************************************)
MinDimension == 100

\* the literal 1.2: the double nearest to 12/10
MinAspect == IntTrueDiv(6, 5)

\* aspect_ratio <= 1.2 in place of aspect_ratio < 1.2
TooWideOrEqual(s) == ~FloatLess(MinAspect, IntTrueDiv(s.height, s.width))

\* aspect_ratio = height / width; aspect_ratio < 1.2
TooWide(s) == FloatLess(IntTrueDiv(s.height, s.width), MinAspect)

\* validate_image with the aspect check before the size check
validate_image_aspect_first(s) ==
    IF ~s.exists
    THEN [is_valid |-> FALSE, message |-> "File does not exist", opened |-> FALSE]
    ELSE IF Lower(s.suffix) \notin supported_formats
    THEN [is_valid |-> FALSE, message |-> "Unsupported format", opened |-> FALSE]
    ELSE IF ~s.decodable
    THEN [is_valid |-> FALSE, message |-> "Invalid image", opened |-> TRUE]
    ELSE IF TooWide(s)
    THEN [is_valid |-> FALSE,
          message |-> "Image should be in portrait orientation (height > width * 1.2)",
          opened |-> TRUE]
    ELSE IF s.width < MinDimension \/ s.height < MinDimension
    THEN [is_valid |-> FALSE, message |-> "Image too small (minimum 100x100px)",
          opened |-> TRUE]
    ELSE [is_valid |-> TRUE, message |-> "Valid image", opened |-> TRUE]

\* The checks in the order of the code; the first that fails returns.  A
\* file Pillow cannot open or verify raises inside the try and is answered
\* by the except clause.  opened tells whether Image.open was called.
validate_image(s) ==
    IF ~s.exists
    THEN [is_valid |-> FALSE, message |-> "File does not exist", opened |-> FALSE]
    ELSE IF Lower(s.suffix) \notin supported_formats
    THEN [is_valid |-> FALSE, message |-> "Unsupported format", opened |-> FALSE]
    ELSE IF ~s.decodable
    THEN [is_valid |-> FALSE, message |-> "Invalid image", opened |-> TRUE]
    ELSE IF s.width < MinDimension \/ s.height < MinDimension
    THEN [is_valid |-> FALSE, message |-> "Image too small (minimum 100x100px)",
          opened |-> TRUE]
    ELSE IF TooWide(s)
    THEN [is_valid |-> FALSE,
          message |-> "Image should be in portrait orientation (height > width * 1.2)",
          opened |-> TRUE]
    ELSE [is_valid |-> TRUE, message |-> "Valid image", opened |-> TRUE]

\* datetime.now().isoformat(): the date and the time of day
isoformat(day, instant) == [date |-> day, time |-> instant]

\* get_image_info: the fields the model keeps of the dictionary
get_image_info(s) == [width |-> s.width, height |-> s.height]

(***************************************************************************)
(* State.                                                                  *)
(***************************************************************************)
VARIABLES
    source,              \* the file at image_path
    wallpaper_metadata,  \* the metadata argument
    today,               \* datetime.now() as a day number
    disk,                \* output_dir: file name -> content
    pc,                  \* the statement process_all_resolutions is at
    idx,                 \* position of the for loop in ResolutionOrder
    validation,          \* what validate_image returned
    results,             \* the dictionary process_all_resolutions returns
    output_filename,     \* locals of process_single_resolution ...
    img,
    processed,
    save_kwargs,
    inject_result,       \* what inject_seo_metadata returned, "" when not called
    ret,                 \* ... and the tuple it returns
    faults_left,         \* how many more library calls the environment fails
    escaped,             \* an exception left process_all_resolutions
    inject_calls,        \* calls of inject_seo_metadata in this invocation
    run,                 \* which invocation of process_all_resolutions this is
    previous,            \* what the invocation before it returned and left on disk
    changes,             \* times the clock or the source file changed under it
    now,                 \* datetime.now(): the instant within the day
    procs,               \* two invocations that run at the same time ...
    shared,              \* ... and the output directory they share
    root,                \* BatchWallpaperPublisher: the Tk window, "none" without it
    image_files,         \* self.image_files
    auto_generate,       \* self.auto_generate_var
    api_key,             \* the Gemini key entry holds a key
    is_processing,       \* self.is_processing
    stop_processing,     \* self.stop_processing
    start_btn,           \* state of the start button
    stop_btn,            \* state of the stop button
    processing_results,  \* self.processing_results
    thread,              \* the batch thread: its position and its locals
    after_queue,         \* callbacks handed to root.after(0, ...)
    dialog,              \* the modal completion dialog, <<>> when none is open
    r2_bucket,           \* the R2 bucket: object name -> what was uploaded
    wallpapers,          \* rows of the Supabase table wallpapers
    wallpaper_stats,     \* rows of the table wallpaper_stats
    threads_started,     \* batch threads started so far
    clicks,              \* what the user did in the window so far
    bp                   \* ImageProcessor.batch_process: its position and locals

vars == <<source, wallpaper_metadata, today, disk, pc, idx, validation, results,
          output_filename, img, processed, save_kwargs, inject_result, ret,
          faults_left, escaped, inject_calls, run, previous, changes, now,
          procs, shared, root, image_files, auto_generate, api_key,
          is_processing, stop_processing, start_btn, stop_btn,
          processing_results, thread, after_queue, dialog, r2_bucket,
          wallpapers, wallpaper_stats, threads_started, clicks, bp>>

\* the state of the callers of process_all_resolutions
callers == <<root, image_files, auto_generate, api_key, is_processing,
             stop_processing, start_btn, stop_btn, processing_results, thread,
             after_queue, dialog, r2_bucket, wallpapers, wallpaper_stats,
             threads_started, clicks, bp>>

\* what the steps of one invocation leave alone
outside == <<run, previous, changes, now, procs, shared, callers>>

locals == <<output_filename, img, processed, save_kwargs, inject_result>>

\* values of locals that are not bound
NoName == [stamp |-> 0, digest |-> 0, profile |-> "", ext |-> ""]
NoImage == [width |-> 0, height |-> 0]
NoKwargs == [format |-> ""]
NoReturn == [success |-> FALSE, output_path |-> NoName, metadata |-> <<>>]
NoValidation == [is_valid |-> FALSE, message |-> "", opened |-> FALSE]

\* a file some earlier run left in the output directory
OldFile == [stamp |-> 0, digest |-> 0, profile |-> "", ext |-> ".jpg"]
OldContent == [format |-> "JPEG", width |-> 1080, height |-> 1920,
               exif |-> FALSE, xp_keywords |-> <<>>, iptc |-> FALSE,
               keywords |-> <<>>]
InitialDisk == OldFile :> OldContent

\* what a save that raised part-way leaves under the name it had opened
Truncated == [format |-> "truncated", width |-> 0, height |-> 0,
              exif |-> FALSE, xp_keywords |-> <<>>, iptc |-> FALSE,
               keywords |-> <<>>]

\* no batch thread runs
NoThread ==
    [at |-> "none", model |-> FALSE, total_images |-> 0, images |-> <<>>,
     i |-> 0, successful_uploads |-> 0, failed_uploads |-> 0, appended |-> 0,
     ai_model |-> FALSE, resolution |-> 0, uploaded_urls |-> <<>>,
     wallpaper_id |-> 0, result |-> <<>>]

\* batch_process is not running
NoBatchProcess == [at |-> "none", image_paths |-> <<>>, i |-> 0, results |-> <<>>]

\* process_all_resolutions is called directly: there is no publisher window,
\* no batch thread and no batch_process around it
NoCallers ==
    /\ root = "none"
    /\ image_files = <<>>
    /\ auto_generate = FALSE
    /\ api_key = FALSE
    /\ is_processing = FALSE
    /\ stop_processing = FALSE
    /\ start_btn = "disabled"
    /\ stop_btn = "disabled"
    /\ processing_results = <<>>
    /\ thread = NoThread
    /\ after_queue = <<>>
    /\ dialog = <<>>
    /\ r2_bucket = <<>>
    /\ wallpapers = <<>>
    /\ wallpaper_stats = <<>>
    /\ threads_started = 0
    /\ clicks = 0
    /\ bp = NoBatchProcess

InitPipeline(sources, metadatas, faults) ==
    /\ NoCallers
    /\ source \in sources
    /\ wallpaper_metadata \in metadatas
    /\ today = 1
    /\ disk = InitialDisk
    /\ pc = "validate"
    /\ idx = 0
    /\ validation = NoValidation
    /\ results = <<>>
    /\ output_filename = NoName
    /\ img = NoImage
    /\ processed = NoImage
    /\ save_kwargs = NoKwargs
    /\ inject_result = ""
    /\ ret = NoReturn
    /\ faults_left = faults
    /\ escaped = FALSE
    /\ inject_calls = 0
    /\ run = 1
    /\ previous = <<>>
    /\ changes = 0
    /\ now = 0

\* one invocation, and no other at the same time
InitWith(sources, metadatas, faults) ==
    /\ InitPipeline(sources, metadatas, faults)
    /\ procs = <<>>
    /\ shared = <<>>

(***************************************************************************)
(* generate_filename, resize_image and the encoder settings.               *)
(***************************************************************************)
\* generate_filename with the time of day in the timestamp, which differs
\* from one invocation to the next
generate_filename_with_time(s, day, resolution) ==
    [stamp |-> (day * 100) + run, digest |-> s.digest,
     profile |-> IF resolution = "original" THEN "" ELSE resolution,
     ext |-> IF resolution = "original" /\ Lower(s.suffix) \notin {".heic", ".heif"}
             THEN Lower(s.suffix)
             ELSE IF resolution = "original" THEN ".jpg" ELSE ".webp"]

\* generate_filename with the _{resolution} part left out
generate_filename_no_profile(s, day, resolution) ==
    [stamp |-> day, digest |-> s.digest, profile |-> "",
     ext |-> IF resolution = "original" /\ Lower(s.suffix) \notin {".heic", ".heif"}
             THEN Lower(s.suffix)
             ELSE IF resolution = "original" THEN ".jpg" ELSE ".webp"]

\* wallpaper_{timestamp}_{file_hash}[_{resolution}]{ext} as a record; profile
\* is the resolution of the _{resolution} part and "" when the name has none
generate_filename(s, day, resolution) ==
    LET original_ext == Lower(s.suffix)
    IN  IF resolution = "original"
        THEN IF original_ext \in {".heic", ".heif"}
             THEN [stamp |-> day, digest |-> s.digest, profile |-> "", ext |-> ".jpg"]
             ELSE [stamp |-> day, digest |-> s.digest, profile |-> "",
                   ext |-> original_ext]
        ELSE [stamp |-> day, digest |-> s.digest, profile |-> resolution,
              ext |-> ".webp"]

\* the f-strings of generate_filename: the pieces a name is put together of
filename_text(name) ==
    IF name.profile = ""
    THEN <<"wallpaper_", name.stamp, "_", name.digest, name.ext>>
    ELSE <<"wallpaper_", name.stamp, "_", name.digest, "_", name.profile, name.ext>>

\* new_size with the comparison the other way round, which fits the image
\* into the target box
new_size_fit(image, target_width, target_height) ==
    LET current_ratio == IntTrueDiv(image.height, image.width)
        target_ratio  == IntTrueDiv(target_height, target_width)
    IN  IF FloatLess(current_ratio, target_ratio)
        THEN [width  |-> target_width,
              height |-> FloatTrunc(FloatMulInt(target_width, current_ratio))]
        ELSE [width  |-> FloatTrunc(IntDivFloat(target_height, current_ratio)),
              height |-> target_height]

\* (new_width, new_height) of resize_image
new_size(image, target_width, target_height) ==
    LET current_ratio == IntTrueDiv(image.height, image.width)
        target_ratio  == IntTrueDiv(target_height, target_width)
    IN  IF FloatLess(target_ratio, current_ratio)
        THEN [width  |-> target_width,
              height |-> FloatTrunc(FloatMulInt(target_width, current_ratio))]
        ELSE [width  |-> FloatTrunc(IntDivFloat(target_height, current_ratio)),
              height |-> target_height]

\* the crop box of resize_image
crop_box(new, target_width, target_height) ==
    LET left == (new.width - target_width) \div 2
        top  == (new.height - target_height) \div 2
    IN  [left |-> left, top |-> top,
         right |-> left + target_width, bottom |-> top + target_height]

\* Image.crop: the result has the size of the box
crop(box) == [width |-> box.right - box.left, height |-> box.bottom - box.top]

\* resize_image without the crop to the target box
resize_image_no_crop(image, target_width, target_height) ==
    new_size(image, target_width, target_height)

resize_image(image, target_width, target_height) ==
    LET new == new_size(image, target_width, target_height)
    IN  IF new.width # target_width \/ new.height # target_height
        THEN crop(crop_box(new, target_width, target_height))
        ELSE new

\* an encoder choice without the PNG branch
SaveKwargsNoPng(resolution, s) ==
    LET config == resolutions[resolution]
    IN  IF resolution = "original"
        THEN [format |-> "JPEG", quality |-> config.quality,
              optimize |-> TRUE, progressive |-> TRUE]
        ELSE [format |-> "WebP", quality |-> config.quality, method |-> 6,
              optimize |-> TRUE, lossless |-> FALSE, exact |-> FALSE]

\* the arguments of processed.save
SaveKwargs(resolution, s) ==
    LET config == resolutions[resolution]
        original_ext == Lower(s.suffix)
    IN  IF resolution = "original"
        THEN IF original_ext \in {".heic", ".heif"}
             THEN [format |-> "JPEG", quality |-> config.quality,
                   optimize |-> TRUE, progressive |-> TRUE]
             ELSE IF original_ext \in {".png"}
             THEN [format |-> "PNG", optimize |-> TRUE]
             ELSE [format |-> "JPEG", quality |-> config.quality,
                   optimize |-> TRUE, progressive |-> TRUE]
        ELSE [format |-> "WebP", quality |-> config.quality, method |-> 6,
              optimize |-> TRUE, lossless |-> FALSE, exact |-> FALSE]

TagLimit == 5
KeywordLimit == 15

\* seq[:n]
Slice(seq, n) == SubSeq(seq, 1, IF Len(seq) < n THEN Len(seq) ELSE n)

\* tags[:6] in place of tags[:5]
keywords_one_more_tag(metadata) ==
    LET category == Get(metadata, "category", PyStr(<<"wallpaper">>))
        tags     == Get(metadata, "tags", PyList(<<>>))
        fixed    == <<PyStr(Format(category) \o <<"wallpaper">>),
                      PyStr(<<"mobile", "wallpaper">>),
                      PyStr(<<"phone", "background">>),
                      PyStr(<<"HD", "wallpaper">>),
                      PyStr(<<"smartphone", "wallpaper">>)>>
    IN  IF Truthy(tags) THEN fixed \o Slice(tags.value, TagLimit + 1) ELSE fixed

\* the keywords list of inject_seo_metadata, for tags that can be sliced
keywords(metadata) ==
    LET category == Get(metadata, "category", PyStr(<<"wallpaper">>))
        tags     == Get(metadata, "tags", PyList(<<>>))
        fixed    == <<PyStr(Format(category) \o <<"wallpaper">>),
                      PyStr(<<"mobile", "wallpaper">>),
                      PyStr(<<"phone", "background">>),
                      PyStr(<<"HD", "wallpaper">>),
                      PyStr(<<"smartphone", "wallpaper">>)>>
    IN  IF Truthy(tags) THEN fixed \o Slice(tags.value, TagLimit) ELSE fixed

\* info['keywords'] = keywords[:15]
iptc_keywords(metadata) == Slice(keywords(metadata), KeywordLimit)

\* The statements before Image.open that raise for a metadata record:
\* tags[:5] on a value that cannot be sliced, .encode on a description or a
\* title that is no str, ", ".join on a keyword that is no str.
ExifRaises(metadata) ==
    LET title       == Get(metadata, "title", PyStr(<<"Mobile", "Wallpaper">>))
        description == Get(metadata, "description",
                           PyStr(<<"High-quality", "mobile", "wallpaper">>))
        tags        == Get(metadata, "tags", PyList(<<>>))
    IN  \/ Truthy(tags) /\ tags.type # "list"
        \/ description.type # "str"
        \/ title.type # "str"
        \/ /\ ~(Truthy(tags) /\ tags.type # "list")
           /\ \E i \in DOMAIN keywords(metadata) : keywords(metadata)[i].type # "str"

\* category.upper() on a category that is no str
IptcRaises(metadata) ==
    Get(metadata, "category", PyStr(<<"wallpaper">>)).type # "str"

\* the condition without `resolution == 'original'`
ShouldInjectEveryProfile(metadata, resolution) == Truthy(metadata)

\* `if wallpaper_metadata and resolution == 'original'`: None and {} are falsy
ShouldInject(metadata, resolution) ==
    Truthy(metadata) /\ resolution = "original"

\* os.path.getsize: the length of the bytes that encode a content
FileSize(content) == [bytes_of |-> content]

\* inject_seo_metadata without its outer try: what it raises reaches
\* process_single_resolution
RaisingStepsWithInject ==
    {"filename", "open", "resize", "enhance", "save", "inject_exif", "getsize"}

\* the statements of process_single_resolution's try block that call into a
\* library and can raise
RaisingSteps == {"filename", "open", "resize", "enhance", "save", "getsize"}

\* a try block that starts after generate_filename
TryStepsAfterFilename == {"open", "resize", "enhance", "save",
                          "inject_exif", "inject_iptc", "getsize"}

\* the statements inside the try block of process_single_resolution
TrySteps == {"filename", "open", "resize", "enhance", "save",
             "inject_exif", "inject_iptc", "getsize"}

\* a step that raises whatever the environment does: reading a missing
\* file, opening a file that holds no image
MustRaise(step) ==
    \/ step = "filename" /\ ~source.exists
    \/ step = "open" /\ ~source.decodable
    \/ step = "inject_exif" /\ ExifRaises(wallpaper_metadata)
    \/ step = "inject_iptc" /\ IptcRaises(wallpaper_metadata)

\* process_all_resolutions without the early return
NeverReturnsEarly(v) == FALSE

\* validate_image's answer makes process_all_resolutions return at once
ReturnsEarly(v) == ~v.is_valid

\* a for loop that breaks at the first resolution that failed
AfterIterationBreak(i, r) ==
    IF i = Len(ResolutionOrder) \/ ~r.success THEN "done" ELSE "filename"

\* the statement after one iteration of the for loop
AfterIteration(i, r) == IF i = Len(ResolutionOrder) THEN "done" ELSE "filename"

(***************************************************************************)
(* process_all_resolutions and process_single_resolution, step by step.    *)
(***************************************************************************)
resolution == ResolutionOrder[idx]

\* validate, get_image_info and the initial results dictionary
StartProcess ==
    /\ pc = "validate"
    /\ LET v == validate_image(source)
       IN  /\ validation' = v
           /\ IF ReturnsEarly(v)
              THEN /\ results' = [error |-> v.message, success |-> FALSE]
                   /\ pc' = "done"
                   /\ idx' = idx
              ELSE /\ results' =
                         [success |-> TRUE,
                          original_info |-> get_image_info(source),
                          processed_files |-> <<>>,
                          urls |-> <<>>,
                          metadata |-> [processing_date |-> isoformat(today, now),
                                        original_path |-> "image_path"]]
                   /\ pc' = "filename"
                   /\ idx' = 1
    /\ UNCHANGED <<outside, inject_calls, source, wallpaper_metadata, today,
                   disk, locals, ret,
                   faults_left, escaped>>

\* output_filename = self.generate_filename(image_path, resolution)
GenerateFilename ==
    /\ pc = "filename"
    /\ ~MustRaise(pc)
    /\ output_filename' = generate_filename(source, today, resolution)
    /\ pc' = "open"
    /\ UNCHANGED <<outside, inject_calls, source, wallpaper_metadata, today,
                   disk, idx, validation,
                   results, img, processed, save_kwargs, inject_result, ret,
                   faults_left, escaped>>

\* Image.open and the conversion to RGB, which keeps the size
OpenImage ==
    /\ pc = "open"
    /\ ~MustRaise(pc)
    /\ img' = [width |-> source.width, height |-> source.height]
    /\ pc' = IF resolution = "original" THEN "enhance" ELSE "resize"
    /\ UNCHANGED <<outside, inject_calls, source, wallpaper_metadata, today,
                   disk, idx, validation,
                   results, output_filename, processed, save_kwargs,
                   inject_result, ret, faults_left, escaped>>

ResizeImage ==
    /\ pc = "resize"
    /\ processed' = resize_image(img, resolutions[resolution].width,
                                 resolutions[resolution].height)
    /\ pc' = "enhance"
    /\ UNCHANGED <<outside, inject_calls, source, wallpaper_metadata, today,
                   disk, idx, validation,
                   results, output_filename, img, save_kwargs, inject_result,
                   ret, faults_left, escaped>>

\* enhance_image works on a copy and keeps the size
EnhanceImage ==
    /\ pc = "enhance"
    /\ processed' = IF resolution = "original" THEN img ELSE processed
    /\ pc' = "save"
    /\ UNCHANGED <<outside, inject_calls, source, wallpaper_metadata, today,
                   disk, idx, validation,
                   results, output_filename, img, save_kwargs, inject_result,
                   ret, faults_left, escaped>>

\* processed.save(output_path, **save_kwargs) creates or overwrites the file
SaveImage ==
    /\ pc = "save"
    /\ save_kwargs' = SaveKwargs(resolution, source)
    /\ disk' = (output_filename :>
                   [format |-> save_kwargs'.format, width |-> processed.width,
                    height |-> processed.height, exif |-> FALSE,
                    xp_keywords |-> <<>>, iptc |-> FALSE, keywords |-> <<>>])
               @@ disk
    /\ pc' = IF ShouldInject(wallpaper_metadata, resolution)
             THEN "inject_exif" ELSE "getsize"
    /\ UNCHANGED <<outside, inject_calls, source, wallpaper_metadata, today,
                   idx, validation, results,
                   output_filename, img, processed, inject_result, ret,
                   faults_left, escaped>>

\* inject_seo_metadata up to img.save(image_path, 'JPEG', exif=...): the file
\* is read back and written again as JPEG with the EXIF block
InjectExif ==
    /\ pc = "inject_exif"
    /\ ~MustRaise(pc)
    /\ inject_calls' = inject_calls + 1
    /\ disk' = [disk EXCEPT ![output_filename] =
                   [format |-> "JPEG", width |-> @.width, height |-> @.height,
                    exif |-> TRUE, xp_keywords |-> keywords(wallpaper_metadata),
                    iptc |-> FALSE, keywords |-> <<>>]]
    /\ pc' = "inject_iptc"
    /\ UNCHANGED <<outside, source, wallpaper_metadata, today,
                   idx, validation, results,
                   locals, ret, faults_left, escaped>>

\* the outer except of inject_seo_metadata: print and return False.  The
\* file is as it was when the EXIF build or Image.open raised, and is cut
\* short when img.save raised after it had opened the file for writing.
InjectExifFails ==
    /\ pc = "inject_exif"
    /\ MustRaise(pc) \/ faults_left > 0
    /\ faults_left' = IF MustRaise(pc) THEN faults_left ELSE faults_left - 1
    /\ inject_calls' = inject_calls + 1
    /\ \E in_save \in (IF MustRaise(pc) THEN {FALSE} ELSE BOOLEAN) :
          disk' = IF in_save THEN [disk EXCEPT ![output_filename] = Truncated]
                  ELSE disk
    /\ inject_result' = "False"
    /\ pc' = "getsize"
    /\ UNCHANGED <<outside, source, wallpaper_metadata, today,
                   idx, validation,
                   results, output_filename, img, processed, save_kwargs, ret,
                   escaped>>

\* IPTCInfo(image_path, force=True) ... info.save(), then return True
InjectIptc ==
    /\ pc = "inject_iptc"
    /\ ~MustRaise(pc)
    /\ disk' = [disk EXCEPT ![output_filename].iptc = TRUE,
                            ![output_filename].keywords =
                                iptc_keywords(wallpaper_metadata)]
    /\ inject_result' = "True"
    /\ pc' = "getsize"
    /\ UNCHANGED <<outside, inject_calls, source, wallpaper_metadata, today,
                   idx, validation, results,
                   output_filename, img, processed, save_kwargs, ret,
                   faults_left, escaped>>

\* an IPTC failure that reaches the outer except: return False
InjectIptcFailsOuter ==
    /\ pc = "inject_iptc"
    /\ MustRaise(pc) \/ faults_left > 0
    /\ faults_left' = IF MustRaise(pc) THEN faults_left ELSE faults_left - 1
    /\ inject_result' = "False"
    /\ pc' = "getsize"
    /\ UNCHANGED <<outside, inject_calls, source, wallpaper_metadata, today,
                   disk, idx, validation, results, output_filename, img,
                   processed, save_kwargs, ret, escaped>>

\* the inner except of inject_seo_metadata: a warning, then return True
InjectIptcFails ==
    /\ pc = "inject_iptc"
    /\ MustRaise(pc) \/ faults_left > 0
    /\ faults_left' = IF MustRaise(pc) THEN faults_left ELSE faults_left - 1
    /\ inject_result' = "True"
    /\ pc' = "getsize"
    /\ UNCHANGED <<outside, inject_calls, source, wallpaper_metadata, today,
                   disk, idx, validation,
                   results, output_filename, img, processed, save_kwargs, ret,
                   escaped>>

\* the metadata dictionary built from what processed.save wrote, as if
\* os.path.getsize ran before inject_seo_metadata
GetSizeBeforeInject ==
    /\ pc = "getsize"
    /\ ret' = [success |-> TRUE,
               output_path |-> output_filename,
               metadata |-> [resolution |-> resolution,
                             filename |-> output_filename,
                             path |-> output_filename,
                             width |-> processed.width,
                             height |-> processed.height,
                             file_size |->
                                 FileSize([format |-> save_kwargs.format,
                                           width |-> processed.width,
                                           height |-> processed.height,
                                           exif |-> FALSE, xp_keywords |-> <<>>,
                                           iptc |-> FALSE, keywords |-> <<>>]),
                             quality |-> resolutions[resolution].quality,
                             created_at |-> isoformat(today, now)]]
    /\ pc' = "return"
    /\ UNCHANGED <<outside, inject_calls, source, wallpaper_metadata, today,
                   disk, idx, validation, results, locals, faults_left, escaped>>

\* a caller that looks at what inject_seo_metadata returned and fails the
\* profile when it was False
GetSizeChecksInject ==
    /\ pc = "getsize"
    /\ ret' = IF inject_result = "False"
              THEN [success |-> FALSE, output_path |-> NoName,
                    metadata |-> [error |-> "inject_exif"]]
              ELSE [success |-> TRUE,
                    output_path |-> output_filename,
                    metadata |-> [resolution |-> resolution,
                                  filename |-> output_filename,
                                  path |-> output_filename,
                                  width |-> processed.width,
                                  height |-> processed.height,
                                  file_size |-> FileSize(disk[output_filename]),
                                  quality |-> resolutions[resolution].quality,
                                  created_at |-> isoformat(today, now)]]
    /\ pc' = "return"
    /\ UNCHANGED <<outside, inject_calls, source, wallpaper_metadata, today,
                   disk, idx, validation,
                   results, locals, faults_left, escaped>>

\* the metadata dictionary and `return True, str(output_path), metadata`
GetSize ==
    /\ pc = "getsize"
    /\ ret' = [success |-> TRUE,
               output_path |-> output_filename,
               metadata |-> [resolution |-> resolution,
                             filename |-> output_filename,
                             path |-> output_filename,
                             width |-> processed.width,
                             height |-> processed.height,
                             file_size |-> FileSize(disk[output_filename]),
                             quality |-> resolutions[resolution].quality,
                             created_at |-> isoformat(today, now)]]
    /\ pc' = "return"
    /\ UNCHANGED <<outside, inject_calls, source, wallpaper_metadata, today,
                   disk, idx, validation,
                   results, locals, faults_left, escaped>>

\* A statement of the try block raises.  `except Exception as e` answers
\* with (False, "", {'error': str(e)}); str(e) is modelled by the name of
\* the statement that raised.  processed.save raises before it opened the
\* output file, or after, and then leaves it cut short.
RaiseInProfile ==
    /\ pc \in RaisingSteps
    /\ MustRaise(pc) \/ faults_left > 0
    /\ faults_left' = IF MustRaise(pc) THEN faults_left ELSE faults_left - 1
    /\ \E in_save \in (IF pc = "save" THEN BOOLEAN ELSE {FALSE}) :
          disk' = IF in_save THEN (output_filename :> Truncated) @@ disk ELSE disk
    /\ IF pc \in TrySteps
       THEN /\ ret' = [success |-> FALSE, output_path |-> NoName,
                       metadata |-> [error |-> pc]]
            /\ pc' = "return"
            /\ escaped' = escaped
       ELSE /\ ret' = ret
            /\ pc' = "done"
            /\ escaped' = TRUE
    /\ UNCHANGED <<outside, inject_calls, source, wallpaper_metadata, today,
                   idx, validation,
                   results, locals>>

\* the else branch without `results['success'] = False`
record_failure_keeps_success(res, name, r) ==
    LET message == IF "error" \in DOMAIN r.metadata
                   THEN r.metadata.error ELSE "Unknown error"
        errors  == IF "errors" \in DOMAIN res THEN res.errors ELSE <<>>
    IN  [errors |-> (name :> message) @@ errors] @@ res

\* the success branch of the loop body
record_success(res, name, r) ==
    [res EXCEPT
       !.processed_files = (name :> r.output_path) @@ @,
       !.metadata = (name :> r.metadata) @@ @,
       !.urls = (name :> [prefix |-> "/images/", filename |-> r.output_path]) @@ @]

\* the else branch: results['success'] = False and
\* results.setdefault('errors', {})[resolution] = metadata.get('error', 'Unknown error')
record_failure(res, name, r) ==
    LET message == IF "error" \in DOMAIN r.metadata
                   THEN r.metadata.error ELSE "Unknown error"
        errors  == IF "errors" \in DOMAIN res THEN res.errors ELSE <<>>
    IN  [errors |-> (name :> message) @@ errors] @@ [res EXCEPT !.success = FALSE]

\* a loop body that removes the files of the earlier profiles when a
\* profile failed
RecordResultCleansUp ==
    /\ pc = "return"
    /\ results' = IF ret.success
                  THEN record_success(results, resolution, ret)
                  ELSE record_failure(results, resolution, ret)
    /\ disk' = IF ret.success THEN disk
               ELSE [f \in {g \in DOMAIN disk :
                              \A p \in DOMAIN results.processed_files :
                                  results.processed_files[p] # g} |-> disk[f]]
    /\ pc' = AfterIteration(idx, ret)
    /\ idx' = IF idx = Len(ResolutionOrder) THEN idx ELSE idx + 1
    /\ output_filename' = NoName
    /\ img' = NoImage
    /\ processed' = NoImage
    /\ save_kwargs' = NoKwargs
    /\ inject_result' = ""
    /\ ret' = NoReturn
    /\ UNCHANGED <<outside, inject_calls, source, wallpaper_metadata, today,
                   validation, faults_left, escaped>>

\* the body of the for loop after process_single_resolution returned, and
\* the step to the next resolution or to `return results`
RecordResult ==
    /\ pc = "return"
    /\ results' = IF ret.success
                  THEN record_success(results, resolution, ret)
                  ELSE record_failure(results, resolution, ret)
    /\ pc' = AfterIteration(idx, ret)
    /\ idx' = IF idx = Len(ResolutionOrder) THEN idx ELSE idx + 1
    /\ output_filename' = NoName
    /\ img' = NoImage
    /\ processed' = NoImage
    /\ save_kwargs' = NoKwargs
    /\ inject_result' = ""
    /\ ret' = NoReturn
    /\ UNCHANGED <<outside, inject_calls, source, wallpaper_metadata, today,
                   disk, validation,
                   faults_left, escaped>>

Next ==
    \/ StartProcess
    \/ GenerateFilename
    \/ OpenImage
    \/ ResizeImage
    \/ EnhanceImage
    \/ SaveImage
    \/ InjectExif
    \/ InjectExifFails
    \/ InjectIptc
    \/ InjectIptcFails
    \/ GetSize
    \/ RaiseInProfile
    \/ RecordResult

\* sizes of the runs in which library calls fail
FaultSizes == {<<1080, 1920>>, <<500, 400>>}

Init ==
    InitWith(MissingSources \cup CorruptSources
                \cup ImageSources(FaultSizes, Suffixes),
             MetadataArgs, MaxFaults)

Spec == Init /\ [][Next]_vars

\* what batch_process and the publishers report for a failed result:
\* result.get('error', 'Unknown error')
reported_error(res) == IF "error" \in DOMAIN res THEN res.error ELSE "Unknown error"

(***************************************************************************)
(* Runs in which no library call fails, over the whole grid of sizes.      *)
(***************************************************************************)
NextSizes ==
    \/ StartProcess
    \/ GenerateFilename
    \/ OpenImage
    \/ ResizeImage
    \/ EnhanceImage
    \/ SaveImage
    \/ InjectExif
    \/ InjectIptc
    \/ GetSize
    \/ RecordResult

InitSizes ==
    InitWith(MissingSources \cup CorruptSources
                \cup ImageSources(GridSizes \cup ExampleSizes, {".jpg", ".gif"})
                \cup ImageSources(FaultSizes, Suffixes),
             {PyNone, FullDict}, 0)

SpecSizes == InitSizes /\ [][NextSizes]_vars

(***************************************************************************)
(* Properties.                                                             *)
(***************************************************************************)
Done == pc = "done"

\* the resolutions with an artifact, and those with an entry in errors
Produced == IF "processed_files" \in DOMAIN results
            THEN DOMAIN results.processed_files ELSE {}
Failed == IF "errors" \in DOMAIN results THEN DOMAIN results.errors ELSE {}

\* the artifact record of resolution p has width w and height h
Recorded(p, w, h) ==
    ("metadata" \in DOMAIN results /\ p \in DOMAIN results.metadata)
        => (results.metadata[p].width = w /\ results.metadata[p].height = h)

\* C1: for every accepted source and every fixed-size profile, the width and
\* height recorded for the profile's artifact are exactly the profile's
\* target: 150x200 for thumbnail, 400x533 for medium, 720x960 for large.
C1_ExactTargetSize ==
    /\ Recorded("thumbnail", 150, 200)
    /\ Recorded("medium", 400, 533)
    /\ Recorded("large", 720, 960)

\* a 1080x1920 source, whose resized image overshoots every target height
\* and is cropped, has its three fixed-size artifacts recorded
C1_Witness ==
    /\ Done
    /\ source.width = 1080 /\ source.height = 1920
    /\ {"thumbnail", "medium", "large"} \subseteq Produced

FourProfiles == {"thumbnail", "medium", "large", "original"}

\* C2: in every result returned for a source that passed validation, success
\* is true exactly when processed_files holds all four profiles; the
\* profiles with an artifact and the profiles with an entry in errors are
\* disjoint and together are exactly the four profiles.
C2_SuccessIffAllFour ==
    (Done /\ validation.is_valid) =>
        /\ results.success <=> (Produced = FourProfiles)
        /\ Produced \cap Failed = {}
        /\ Produced \cup Failed = FourProfiles

\* a returned result with two artifacts and two errors
C2_Witness ==
    /\ Done /\ validation.is_valid
    /\ Cardinality(Produced) = 2 /\ Cardinality(Failed) = 2

\* the profiles the loop is through with when it stands at position i of
\* thumbnail, medium, large, original
Before(i) == {<<"thumbnail", "medium", "large", "original">>[j] : j \in 1..(i - 1)}

\* C3: a failure in one profile never aborts the others: the four profiles
\* are attempted in the order thumbnail, medium, large, original, each of
\* them ends as an artifact or as an error, and when exactly one profile
\* raised, the other three are artifacts, success is false and errors holds
\* the failed profile only.
C3_FailureDoesNotAbort ==
    (validation.is_valid /\ ~escaped) =>
        /\ ~Done =>
              /\ Produced \cup Failed = Before(idx)
              /\ resolution = <<"thumbnail", "medium", "large", "original">>[idx]
        /\ Done => Produced \cup Failed = FourProfiles
        /\ \A p \in FourProfiles :
              (Done /\ Failed = {p}) =>
                  /\ Produced = FourProfiles \ {p}
                  /\ ~results.success
                  /\ DOMAIN results.errors = {p}

\* the encode step of large raised and nothing else did
C3_Witness ==
    /\ Done
    /\ Failed = {"large"}
    /\ results.errors["large"] = "save"
    /\ Produced = {"thumbnail", "medium", "original"}

\* the suffixes of the model that validate takes for a supported format
AcceptedSuffixes ==
    {".jpg", ".jpeg", ".png", ".bmp", ".tiff", ".tif", ".webp", ".heic", ".heif",
     ".JPG", ".PNG"}

Admissible ==
    /\ source.exists
    /\ source.suffix \in AcceptedSuffixes
    /\ source.decodable
    /\ source.width >= 100
    /\ source.height >= 100
    /\ 5 * source.height >= 6 * source.width

C5_FirstFailingCheck ==
    pc # "validate" =>
        /\ ~source.exists => validation.message = "File does not exist"
        /\ (source.exists /\ source.suffix \notin AcceptedSuffixes) =>
              (validation.message = "Unsupported format" /\ ~validation.opened)
        /\ (source.exists /\ source.suffix \in AcceptedSuffixes /\ ~source.decodable) =>
              validation.message = "Invalid image"
        /\ (/\ source.exists /\ source.suffix \in AcceptedSuffixes /\ source.decodable
            /\ (source.width < 100 \/ source.height < 100)) =>
              validation.message = "Image too small (minimum 100x100px)"
        /\ (/\ source.exists /\ source.suffix \in AcceptedSuffixes /\ source.decodable
            /\ source.width >= 100 /\ source.height >= 100
            /\ 5 * source.height < 6 * source.width) =>
              validation.message =
                  "Image should be in portrait orientation (height > width * 1.2)"

\* a square image below the minimum size, which fails the size rule and the
\* aspect rule, is rejected as too small
C5_Witness ==
    /\ pc # "validate"
    /\ source.decodable /\ source.suffix = ".jpg"
    /\ source.width < 100 /\ source.width = source.height
    /\ validation.message = "Image too small (minimum 100x100px)"

\* C6: when validate rejects the source, process returns a failed result
\* without attempting any profile: the output directory is as it was and
\* the result has no per-profile entries.
C6_RejectedSourceUntouched ==
    (pc # "validate" /\ ~validation.is_valid) =>
        /\ Done
        /\ idx = 0
        /\ disk = InitialDisk
        /\ ~results.success
        /\ DOMAIN results = {"error", "success"}

\* a well-formed landscape image was rejected
C6_Witness ==
    /\ Done
    /\ source.decodable /\ source.suffix = ".jpg"
    /\ source.width > source.height
    /\ ~validation.is_valid

\* C7: every result with success = false carries an `error` string, when
\* the validator rejected the source and when a profile failed, so that a
\* caller reading it obtains the failure reason.
C7_FailedResultHasError ==
    (Done /\ ~escaped /\ ~results.success) =>
        /\ "error" \in DOMAIN results
        /\ reported_error(results) # "Unknown error"

\* C8: no exception escapes process: for every source and for an exception
\* raised at any step of any profile, process returns a result record.
C8_NoExceptionEscapes ==
    /\ ~escaped
    /\ Done => "success" \in DOMAIN results

\* process returned a record although generate_filename raised in one
\* profile and the size lookup in another
C8_Witness ==
    /\ Done
    /\ \E p, q \in Failed :
          results.errors[p] = "filename" /\ results.errors[q] = "getsize"

\* C9: the container format chosen when encoding depends only on profile
\* and source extension: WebP at quality 95 for thumbnail, medium and large;
\* for original, JPEG under a .jpg name for a heic/heif source, PNG for a
\* png source and JPEG for every other supported extension.
C9_FormatByProfileAndExtension ==
    (save_kwargs # NoKwargs) =>
        /\ resolution \in {"thumbnail", "medium", "large"} =>
              (save_kwargs.format = "WebP" /\ save_kwargs.quality = 95)
        /\ (resolution = "original" /\ source.suffix \in {".heic", ".heif"}) =>
              (save_kwargs.format = "JPEG" /\ output_filename.ext = ".jpg")
        /\ (resolution = "original" /\ source.suffix \in {".png", ".PNG"}) =>
              save_kwargs.format = "PNG"
        /\ (resolution = "original"
              /\ source.suffix \in {".jpg", ".JPG", ".jpeg", ".bmp", ".tiff",
                                    ".tif", ".webp"}) =>
              save_kwargs.format = "JPEG"

\* the original of a .heic source was encoded
C9_Witness ==
    /\ pc = "getsize"
    /\ resolution = "original"
    /\ source.suffix = ".heic"
    /\ save_kwargs.format = "JPEG"

\* C10: for a PNG source, the file recorded as the original artifact is
\* PNG-encoded when process returns, for every metadata argument.
C10_PngOriginalIsPng ==
    (Done /\ source.suffix \in {".png", ".PNG"} /\ "original" \in Produced) =>
        disk[results.processed_files["original"]].format = "PNG"

\* the extension the original of a source with the given suffix is named with
OriginalExt(suffix) ==
    CASE suffix \in {".heic", ".heif"} -> ".jpg"
      [] suffix = ".JPG" -> ".jpg"
      [] suffix = ".PNG" -> ".png"
      [] OTHER -> suffix

(***************************************************************************)
(* The invocation's surroundings: the clock passes midnight, the source    *)
(* file is written again, and the caller calls process_all_resolutions a   *)
(* second time on the same path.                                           *)
(***************************************************************************)
\* datetime.now() gives the next day from here on
AdvanceDay ==
    /\ changes < MaxChanges
    /\ today' = today + 1
    /\ changes' = changes + 1
    /\ UNCHANGED <<source, wallpaper_metadata, disk, pc, idx, validation, results,
                   locals, ret, faults_left, escaped, inject_calls, run,
                   previous, now, procs, shared, callers>>

\* another program writes other image bytes of the same size to image_path:
\* open(original_path, 'rb').read() gives another MD5 from here on
RewriteSource ==
    /\ changes < MaxChanges
    /\ source.exists /\ source.decodable
    /\ source' = [source EXCEPT !.digest = @ + 1]
    /\ changes' = changes + 1
    /\ UNCHANGED <<wallpaper_metadata, today, disk, pc, idx, validation, results,
                   locals, ret, faults_left, escaped, inject_calls, run,
                   previous, now, procs, shared, callers>>

\* process_all_resolutions returned and is called again with the same
\* arguments; the output directory is as the first call left it
CallAgain ==
    /\ pc = "done"
    /\ run < MaxRuns
    /\ run' = run + 1
    /\ previous' = [results |-> results, disk |-> disk]
    /\ pc' = "validate"
    /\ idx' = 0
    /\ validation' = NoValidation
    /\ results' = <<>>
    /\ inject_calls' = 0
    /\ escaped' = FALSE
    /\ UNCHANGED <<source, wallpaper_metadata, today, disk, locals, ret,
                   faults_left, changes, now, procs, shared, callers>>

\* the caller removed the output files of the first call, as the batch
\* publisher does after its uploads, and calls again with the same arguments
CallAfterCleanup ==
    /\ pc = "done"
    /\ run < MaxRuns
    /\ run' = run + 1
    /\ previous' = [results |-> results, disk |-> disk]
    /\ disk' = InitialDisk
    /\ pc' = "validate"
    /\ idx' = 0
    /\ validation' = NoValidation
    /\ results' = <<>>
    /\ inject_calls' = 0
    /\ escaped' = FALSE
    /\ UNCHANGED <<source, wallpaper_metadata, today, locals, ret,
                   faults_left, changes, now, procs, shared, callers>>

\* time passes within the day
Tick ==
    /\ now < MaxTicks
    /\ now' = now + 1
    /\ UNCHANGED <<source, wallpaper_metadata, today, disk, pc, idx, validation,
                   results, locals, ret, faults_left, escaped, inject_calls,
                   run, previous, changes, procs, shared, callers>>

NextClock ==
    \/ StartProcess
    \/ GenerateFilename
    \/ OpenImage
    \/ ResizeImage
    \/ EnhanceImage
    \/ SaveImage
    \/ InjectExif
    \/ InjectIptc
    \/ GetSize
    \/ RecordResult
    \/ CallAfterCleanup
    \/ Tick

InitClock ==
    InitWith(ImageSources({<<1080, 1920>>}, {".jpg", ".png"})
                \cup ImageSources({<<500, 400>>}, {".jpg"}),
             {PyNone, FullDict}, 0)

SpecClock == InitClock /\ [][NextClock]_vars

NextEnv ==
    \/ StartProcess
    \/ GenerateFilename
    \/ OpenImage
    \/ ResizeImage
    \/ EnhanceImage
    \/ SaveImage
    \/ InjectExif
    \/ InjectIptc
    \/ GetSize
    \/ RecordResult
    \/ AdvanceDay
    \/ RewriteSource
    \/ CallAgain

InitEnv ==
    InitWith(ImageSources({<<1080, 1920>>}, {".jpg", ".png"})
                \cup ImageSources({<<500, 400>>}, {".jpg"}),
             {PyNone, FullDict}, 0)

SpecEnv == InitEnv /\ [][NextEnv]_vars

(***************************************************************************)
(* Runs over the metadata records callers can pass, with a library call    *)
(* that fails.                                                             *)
(***************************************************************************)
InitInject ==
    InitWith(ImageSources({<<1080, 1920>>}, {".jpg"}),
             {PyNone, <<>>} \cup MetadataDicts, InjectFaults)

SpecInject == InitInject /\ [][Next]_vars

\* C11: every output filename is wallpaper_{date}_{hash8} followed by
\* _{profile} for thumbnail, medium and large and by nothing for original,
\* then the extension; the four names produced for one source are pairwise
\* distinct for every source extension, a .webp source included.
C11_FilenameForm ==
    /\ output_filename # NoName =>
          filename_text(output_filename) =
              IF resolution = "original"
              THEN <<"wallpaper_", today, "_", source.digest,
                     OriginalExt(source.suffix)>>
              ELSE <<"wallpaper_", today, "_", source.digest, "_", resolution,
                     ".webp">>
    /\ \A p, q \in Produced :
          p # q => filename_text(results.processed_files[p])
                      # filename_text(results.processed_files[q])

\* the four artifacts of a .webp source are recorded
C11_Witness ==
    /\ Done
    /\ source.suffix = ".webp"
    /\ Produced = FourProfiles

\* wallpaper_{YYYYMMDD}_{hash8} of a name
Base(name) == <<"wallpaper_", name.stamp, "_", name.digest>>

\* C12: within one invocation all artifacts recorded in the result have the
\* same base wallpaper_{YYYYMMDD}_{hash8}, also when the date advances or
\* the source file is rewritten between two profiles.
C12_OneBasePerInvocation ==
    \A p, q \in Produced :
        Base(results.processed_files[p]) = Base(results.processed_files[q])

\* C13: a second invocation on byte-identical source content with the same
\* extension and metadata on the same day gives every profile the filename
\* the first invocation gave it, and so overwrites the first invocation's
\* files and creates no new one.
C13_IdempotentNaming ==
    (run = 2 /\ Done /\ changes = 0 /\ validation.is_valid) =>
        /\ results.processed_files = previous.results.processed_files
        /\ DOMAIN disk = DOMAIN previous.disk

\* the second invocation recorded its four artifacts
C13_Witness ==
    /\ run = 2 /\ Done /\ changes = 0
    /\ Produced = FourProfiles
    /\ wallpaper_metadata = FullDict

\* the files of the output directory that this invocation wrote or replaced
Written == {f \in DOMAIN disk : f \notin DOMAIN InitialDisk}

\* C14: the metadata injector is invoked only when metadata is non-null and
\* the profile being processed is original: no EXIF or IPTC write is
\* attempted on a thumbnail, medium or large output, and with metadata
\* absent no injection occurs for any profile.
C14_InjectOnlyOriginal ==
    /\ (pc \in {"inject_exif", "inject_iptc"} \/ inject_result # "") =>
          (wallpaper_metadata # PyNone /\ idx = 4)
    /\ inject_calls > 0 => (wallpaper_metadata # PyNone /\ idx = 4)
    /\ \A f \in Written :
          f.profile \in {"thumbnail", "medium", "large"} =>
              (~disk[f].exif /\ ~disk[f].iptc)
    /\ wallpaper_metadata = PyNone =>
          (inject_calls = 0 /\ \A f \in Written : ~disk[f].exif /\ ~disk[f].iptc)

\* the injector ran on the original after three WebP artifacts were recorded
C14_Witness ==
    /\ Done
    /\ inject_calls = 1
    /\ Produced = FourProfiles
    /\ disk[results.processed_files["original"]].exif

\* a metadata record: a dict with at least one of the four fields
IsRecord(metadata) == metadata # PyNone /\ metadata # <<>>

NotAString(key) ==
    /\ IsRecord(wallpaper_metadata)
    /\ key \in DOMAIN wallpaper_metadata
    /\ wallpaper_metadata[key].type # "str"

\* C16: inject never raises to its caller: for every metadata record, with
\* missing keys, null field values and malformed tags, and for every failure
\* of the EXIF build, the image open or the file save, it returns false, and
\* it returns true only if the EXIF re-save completed.
C16_InjectNeverRaises ==
    /\ ~escaped
    /\ "error" \in DOMAIN ret.metadata =>
          ret.metadata.error \notin {"inject_exif", "inject_iptc"}
    /\ \A p \in Failed : results.errors[p] \notin {"inject_exif", "inject_iptc"}
    /\ (pc = "getsize" /\ idx = 4 /\ IsRecord(wallpaper_metadata)) =>
          /\ inject_result \in {"True", "False"}
          /\ NotAString("description") => inject_result = "False"
    /\ inject_result = "True" => disk[output_filename].exif

\* the injector returned false for a record whose description is null
C16_Witness ==
    /\ pc = "getsize"
    /\ NotAString("description")
    /\ inject_result = "False"

\* C17: a failure of the IPTC write does not affect the EXIF result: when
\* the EXIF re-save succeeded, inject returns true whether or not the IPTC
\* write then fails, and the file keeps the EXIF data already saved.
C17_IptcFailureKeepsExif ==
    [][pc = "inject_iptc" =>
          /\ inject_result' = "True"
          /\ disk'[output_filename].exif
          /\ disk'[output_filename].xp_keywords = disk[output_filename].xp_keywords
          /\ pc' = "getsize"]_vars

\* the injector returned true for a file with EXIF and without IPTC data
C17_Witness ==
    /\ pc = "getsize"
    /\ inject_result = "True"
    /\ disk[output_filename].exif
    /\ ~disk[output_filename].iptc

\* C18: the IPTC write is attempted independently of the EXIF write: every
\* inject call goes on to the IPTC fields whether or not the EXIF stage
\* failed.
C18_IptcAttemptedAlways ==
    [][pc = "inject_exif" => pc' = "inject_iptc"]_vars

\* the keyword list the claim gives for a category and a list of tags
ExpectedKeywords(category, tags) ==
    <<PyStr(category \o <<"wallpaper">>), PyStr(<<"mobile", "wallpaper">>),
      PyStr(<<"phone", "background">>), PyStr(<<"HD", "wallpaper">>),
      PyStr(<<"smartphone", "wallpaper">>)>>
        \o [i \in 1..(IF Len(tags) < 5 THEN Len(tags) ELSE 5) |-> tags[i]]

\* the category and the tags of the metadata argument, with the defaults of
\* an absent key and no tags for a null value
CategoryWords ==
    IF "category" \in DOMAIN wallpaper_metadata
    THEN wallpaper_metadata.category.value ELSE <<"wallpaper">>
TagItems ==
    IF "tags" \in DOMAIN wallpaper_metadata /\ wallpaper_metadata.tags.type = "list"
    THEN wallpaper_metadata.tags.value ELSE <<>>

\* C19: for every category and every tag list, the keyword list built by
\* inject is the five fixed entries in their order followed by the first
\* min(5, number of tags) caller tags in their order; its length is at most
\* 10, and the IPTC keyword field receives the whole list.
C19_KeywordList ==
    \A f \in Written :
        /\ (disk[f].exif /\ ~NotAString("category")) =>
              /\ disk[f].xp_keywords = ExpectedKeywords(CategoryWords, TagItems)
              /\ Len(disk[f].xp_keywords) <= 10
        /\ disk[f].iptc =>
              /\ disk[f].keywords = ExpectedKeywords(CategoryWords, TagItems)
              /\ disk[f].keywords = disk[f].xp_keywords

\* seven tags were passed and the IPTC field holds the five fixed entries and
\* the first five tags
C19_Witness ==
    /\ Done
    /\ Len(TagItems) = 7
    /\ \E f \in Written :
          /\ disk[f].iptc
          /\ Len(disk[f].keywords) = 10
          /\ disk[f].keywords[10] = PyStr(<<"dark">>)

(***************************************************************************)
(* Two invocations of process_all_resolutions at the same time, on two     *)
(* copies of the source file and one output directory.  A step prepares    *)
(* the image of a profile or is one access to the output directory.        *)
(***************************************************************************)
Processes == {1, 2}

\* an invocation that passed validate_image and is about to process thumbnail
StartOf(metadata) ==
    [pc |-> "resize", idx |-> 1, metadata |-> metadata, inject_result |-> "",
     processed |-> NoImage,
     results |-> [success |-> TRUE,
                  original_info |-> get_image_info(source),
                  processed_files |-> <<>>,
                  urls |-> <<>>,
                  metadata |-> [processing_date |-> isoformat(today, now),
                                original_path |-> "image_path"]]]

\* the next step of invocation pr on the directory d: the image it opens
\* and resizes, processed.save, the EXIF re-save of inject_seo_metadata,
\* info.save(), os.path.getsize with the bookkeeping of the loop body
proc_step(pr, d) ==
    LET res  == ResolutionOrder[pr.idx]
        name == generate_filename(source, today, res)
        image == [width |-> source.width, height |-> source.height]
    IN  CASE pr.pc = "resize" ->
               [proc |-> [pr EXCEPT
                            !.pc = "save",
                            !.processed =
                                IF res = "original" THEN image
                                ELSE resize_image(image, resolutions[res].width,
                                                  resolutions[res].height)],
                disk |-> d]
          [] pr.pc = "save" ->
               [proc |-> [pr EXCEPT !.pc = IF ShouldInject(pr.metadata, res)
                                           THEN "inject_exif" ELSE "getsize"],
                disk |-> (name :> [format |-> SaveKwargs(res, source).format,
                                   width |-> pr.processed.width,
                                   height |-> pr.processed.height,
                                   exif |-> FALSE, xp_keywords |-> <<>>,
                                   iptc |-> FALSE, keywords |-> <<>>]) @@ d]
          [] pr.pc = "inject_exif" ->
               [proc |-> [pr EXCEPT !.pc = "inject_iptc"],
                disk |-> [d EXCEPT ![name] =
                            [format |-> "JPEG", width |-> @.width,
                             height |-> @.height, exif |-> TRUE,
                             xp_keywords |-> keywords(pr.metadata),
                             iptc |-> FALSE, keywords |-> <<>>]]]
          [] pr.pc = "inject_iptc" ->
               [proc |-> [pr EXCEPT !.pc = "getsize", !.inject_result = "True"],
                disk |-> [d EXCEPT ![name].iptc = TRUE,
                                   ![name].keywords = iptc_keywords(pr.metadata)]]
          [] OTHER ->
               [proc |-> [pr EXCEPT
                            !.pc = IF pr.idx = Len(ResolutionOrder)
                                   THEN "done" ELSE "resize",
                            !.idx = IF pr.idx = Len(ResolutionOrder)
                                    THEN pr.idx ELSE pr.idx + 1,
                            !.inject_result = "",
                            !.processed = NoImage,
                            !.results = record_success(pr.results, res,
                               [success |-> TRUE,
                                output_path |-> name,
                                metadata |-> [resolution |-> res,
                                              filename |-> name,
                                              path |-> name,
                                              width |-> pr.processed.width,
                                              height |-> pr.processed.height,
                                              file_size |-> FileSize(d[name]),
                                              quality |-> resolutions[res].quality,
                                              created_at |-> isoformat(today, now)]])],
                disk |-> d]

\* an invocation that runs from pr on d with nothing else running
RECURSIVE run_alone(_, _)
run_alone(pr, d) ==
    IF pr.pc = "done" THEN [proc |-> pr, disk |-> d]
    ELSE LET next == CHOOSE n \in {proc_step(pr, d)} : TRUE
         IN  run_alone(next.proc, next.disk)

\* invocation p takes its next step
RaceStep(p) ==
    /\ procs[p].pc # "done"
    /\ \E next \in {proc_step(procs[p], shared)} :
          /\ procs' = [procs EXCEPT ![p] = next.proc]
          /\ shared' = next.disk
    /\ UNCHANGED <<source, wallpaper_metadata, today, disk, pc, idx, validation,
                   results, locals, ret, faults_left, escaped, inject_calls,
                   run, previous, changes, now, callers>>

NextRace == \E p \in Processes : RaceStep(p)

InitRace ==
    /\ InitPipeline(ImageSources({<<1080, 1920>>}, {".jpg"}), {PyNone}, 0)
    /\ procs \in [Processes -> {StartOf(m) : m \in MetadataArgs}]
    /\ shared = InitialDisk

SpecRace == InitRace /\ [][NextRace]_vars

\* what invocation p returns, and what it leaves in the directory, when it
\* runs alone with its arguments
Alone(p) == run_alone(StartOf(procs[p].metadata), InitialDisk)

\* C20: two invocations running concurrently on byte-identical sources into
\* one output directory race harmlessly: for every pair of metadata
\* arguments and every interleaving of their file operations, each output
\* file ends with the bytes a single invocation alone would have produced
\* and both invocations return the result they would have returned alone.
C20_RaceIsHarmless ==
    (\A p \in Processes : procs[p].pc = "done") =>
        \A p \in Processes :
            /\ procs[p].results = Alone(p).proc.results
            /\ \A f \in DOMAIN Alone(p).disk : shared[f] = Alone(p).disk[f]

\* C21: process never deletes a file: in every invocation, one in which a
\* profile fails included, every output file written for a profile that
\* succeeded is on disk when process returns, and no file that was in the
\* output directory before the call is removed.
C21_NoFileDeleted ==
    /\ DOMAIN InitialDisk \subseteq DOMAIN disk
    /\ \A p \in Produced : results.processed_files[p] \in DOMAIN disk

\* process returned with large failed, and the files of thumbnail and
\* medium are in the directory
C21_Witness ==
    /\ Done
    /\ "large" \in Failed
    /\ {"thumbnail", "medium"} \subseteq Produced
    /\ \A p \in {"thumbnail", "medium"} : results.processed_files[p] \in Written

\* C22: the result record is deterministic: two invocations of process with
\* the identical source, identical metadata and identical filesystem state
\* return identical records, with the same keys and the same value for
\* every field.
C22_SameResultTwice ==
    (run = 2 /\ Done /\ changes = 0) => results = previous.results

\* C23: for every accepted source size (w, h) and every fixed target
\* (tw, th), resize computes (nw, nh) with nw = tw and nh >= th when
\* h/w > th/tw, and nh = th and nw >= tw otherwise; the centre-crop box with
\* left = (nw - tw) div 2 and top = (nh - th) div 2 has 0 <= left, 0 <= top,
\* left + tw <= nw and top + th <= nh, so the crop stays inside the resized
\* image.
C23_ResizeCovers ==
    (pc = "enhance" /\ idx <= 3) =>
        \A tw \in {<<150, 400, 720>>[idx]} : \A th \in {<<200, 533, 960>>[idx]} :
        \A new \in {new_size(img, tw, th)} :
        \A box \in {crop_box(new, tw, th)} :
            /\ (img.height * tw > th * img.width) =>
                  (new.width = tw /\ new.height >= th)
            /\ (img.height * tw <= th * img.width) =>
                  (new.height = th /\ new.width >= tw)
            /\ box.left = (new.width - tw) \div 2
            /\ box.top = (new.height - th) \div 2
            /\ 0 <= box.left /\ 0 <= box.top
            /\ box.left + tw <= new.width
            /\ box.top + th <= new.height
            /\ box.right = box.left + tw /\ box.bottom = box.top + th
            /\ processed = [width |-> tw, height |-> th]

\* the thumbnail of a 100x138 source: 150 * (138 / 100) is 206 in floating
\* point, and the crop takes 200 rows of them
C23_Witness ==
    /\ pc = "enhance" /\ idx = 1
    /\ img = [width |-> 100, height |-> 138]
    /\ new_size(img, 150, 200) = [width |-> 150, height |-> 206]
    /\ crop_box(new_size(img, 150, 200), 150, 200).top = 3

\* C24: a metadata-injection failure is not fatal: when inject returned
\* False for the original profile, process_single_resolution goes on to
\* build its metadata and, unless os.path.getsize itself raises, returns
\* success; the loop then records the original artifact, adds no entry to
\* errors and leaves the success flag as it was.
C24_InjectFailureNotFatal ==
    /\ [](pc = "return" /\ inject_result = "False" =>
             ret.success \/ ret.metadata.error = "getsize")
    /\ [][pc = "return" /\ inject_result = "False" /\ ret.success =>
             /\ "original" \in DOMAIN results'.processed_files
             /\ results'.processed_files["original"] = output_filename
             /\ Failed' = Failed
             /\ results'.success = results.success]_vars

\* a call that ended with the original recorded although its one injection
\* failed before any EXIF was written
C24_Witness ==
    /\ Done /\ inject_calls = 1
    /\ Produced = {"thumbnail", "medium", "large", "original"}
    /\ ~disk[results.processed_files["original"]].exif
    /\ results.success /\ Failed = {}

\* the container format a file extension names
ContainerOf(ext) ==
    CASE ext \in {".jpg", ".jpeg"} -> "JPEG"
      [] ext = ".png"              -> "PNG"
      [] ext = ".webp"             -> "WebP"
      [] ext = ".bmp"              -> "BMP"
      [] ext \in {".tiff", ".tif"} -> "TIFF"
      [] OTHER                     -> "unknown"

\* C29: for every supported source extension and every metadata argument,
\* when process returns, the extension of the original artifact's filename
\* names the container format the file is encoded in.
C29_ExtensionNamesFormat ==
    (Done /\ "original" \in Produced) =>
        disk[results.processed_files["original"]].format =
            ContainerOf(results.processed_files["original"].ext)

(***************************************************************************)
(* The callers of process_all_resolutions: ImageProcessor.batch_process    *)
(* and the batch publisher with its thread, its uploads and its catalog.   *)
(***************************************************************************)
MaxImages == 2
MaxPaths == 2
BatchFaults == 1
MaxBatchRuns == 1
MaxClicks == 4

\* the state of one invocation of process_all_resolutions
pipeline == <<source, wallpaper_metadata, today, disk, pc, idx, validation,
              results, locals, ret, faults_left, escaped, inject_calls>>

\* the surroundings of an invocation that the callers leave alone
surroundings == <<run, previous, changes, now, procs, shared>>

\* before the first call there is no image_path
NoSource == [exists |-> FALSE, suffix |-> "", decodable |-> FALSE,
             width |-> 0, height |-> 0, digest |-> 0]

\* the n-th image file of a folder
FolderImage(n) ==
    [exists |-> TRUE, suffix |-> IF n % 2 = 1 THEN ".jpg" ELSE ".png",
     decodable |-> TRUE, width |-> 1080, height |-> 1920, digest |-> n]

\* what scan_folder_for_images leaves in self.image_files, the valid images
\* of the folder without duplicates and sorted: for a folder without images
\* and for one with MaxImages images
Folders == {[n \in 1..m |-> FolderImage(n)] : m \in {0, MaxImages}}

\* the paths a caller hands to batch_process
PathPool ==
    {FolderImage(1),
     [exists |-> FALSE, suffix |-> ".jpg", decodable |-> FALSE,
      width |-> 0, height |-> 0, digest |-> 0],
     [exists |-> TRUE, suffix |-> ".jpg", decodable |-> FALSE,
      width |-> 0, height |-> 0, digest |-> 1]}

PathLists == UNION {[1..m -> PathPool] : m \in 0..MaxPaths}

\* process_all_resolutions(image_path, wallpaper_metadata) is entered
CallProcess(image_path, metadata) ==
    /\ source' = image_path
    /\ wallpaper_metadata' = metadata
    /\ pc' = "validate"
    /\ idx' = 0
    /\ validation' = NoValidation
    /\ results' = <<>>
    /\ inject_calls' = 0
    /\ escaped' = FALSE
    /\ UNCHANGED <<today, disk, locals, ret, faults_left>>

(***************************************************************************)
(* ImageProcessor.batch_process                                            *)
(***************************************************************************)
\* the head of the for loop: the next path is processed, or `return results`
BatchProcessLoop ==
    /\ bp.at = "loop"
    /\ IF bp.i = Len(bp.image_paths)
       THEN /\ bp' = [bp EXCEPT !.at = "returned"]
            /\ UNCHANGED pipeline
       ELSE /\ bp' = [bp EXCEPT !.i = @ + 1, !.at = "call"]
            /\ CallProcess(bp.image_paths[bp.i + 1], PyNone)
    /\ UNCHANGED <<clicks, surroundings, root, image_files, auto_generate, api_key,
                   is_processing, stop_processing, start_btn, stop_btn,
                   processing_results, thread, after_queue, dialog, r2_bucket,
                   wallpapers, wallpaper_stats, threads_started>>


\* the body of the loop after process_all_resolutions came back: the try
\* with its two branches, and the except for a call that raised
BatchProcessCount ==
    /\ bp.at = "call"
    /\ pc = "done"
    /\ LET image_path == bp.image_paths[bp.i]
       IN  bp' = [bp EXCEPT
                    !.at = "loop",
                    !.results =
                        IF escaped
                        THEN [@ EXCEPT !.failed = @ + 1,
                                       !.errors = (image_path :> "exception") @@ @]
                        ELSE IF results.success
                        THEN [@ EXCEPT !.successful = @ + 1,
                                       !.results = (image_path :> results) @@ @]
                        ELSE [@ EXCEPT !.failed = @ + 1,
                                       !.errors = (image_path :>
                                                     reported_error(results)) @@ @]]
    /\ UNCHANGED <<clicks, pipeline, surroundings, root, image_files, auto_generate,
                   api_key, is_processing, stop_processing, start_btn, stop_btn,
                   processing_results, thread, after_queue, dialog, r2_bucket,
                   wallpapers, wallpaper_stats, threads_started>>

(***************************************************************************)
(* BatchWallpaperPublisher: what the user does in the window.              *)
(***************************************************************************)
\* the main window takes clicks: the main loop runs and no modal dialog is
\* up; the user clicks MaxClicks times at most
UserInput == root = "mainloop" /\ dialog = <<>> /\ clicks < MaxClicks


\* the state check_ready_state gives the start button
check_ready_state(files, auto, key, processing) ==
    IF files # <<>> /\ Len(files) > 0 /\ (~auto \/ key) /\ ~processing
    THEN "normal" ELSE "disabled"

\* a folder is chosen: scan_folder_for_images, then check_ready_state.  The
\* scan is one step of the main thread: the batch thread reads
\* self.image_files before it or after it.
select_folder ==
    /\ UserInput
    /\ clicks' = clicks + 1
    /\ \E files \in Folders :
          /\ image_files' = files
          /\ start_btn' = check_ready_state(files, auto_generate, api_key,
                                            is_processing)
    /\ UNCHANGED <<pipeline, surroundings, root, auto_generate, api_key,
                   is_processing, stop_processing, stop_btn, processing_results,
                   thread, after_queue, dialog, r2_bucket, wallpapers,
                   wallpaper_stats, threads_started, bp>>

\* the user ticks or unticks the checkbutton of auto_generate_var
ToggleAutoGenerate ==
    /\ UserInput
    /\ clicks' = clicks + 1
    /\ auto_generate' = ~auto_generate
    /\ UNCHANGED <<pipeline, surroundings, root, image_files, api_key,
                   is_processing, stop_processing, start_btn, stop_btn,
                   processing_results, thread, after_queue, dialog, r2_bucket,
                   wallpapers, wallpaper_stats, threads_started, bp>>

\* the start button: past the three early returns the state is reset and
\* the thread started
start_batch_processing ==
    /\ UserInput
    /\ clicks' = clicks + 1
    /\ start_btn = "normal"
    /\ image_files # <<>>
    /\ ~(auto_generate /\ ~api_key)
    /\ threads_started < MaxBatchRuns
    /\ processing_results' = <<>>
    /\ is_processing' = TRUE
    /\ stop_processing' = FALSE
    /\ start_btn' = "disabled"
    /\ stop_btn' = "normal"
    /\ thread' = [NoThread EXCEPT !.at = "setup"]
    /\ threads_started' = threads_started + 1
    /\ UNCHANGED <<pipeline, surroundings, root, image_files, auto_generate,
                   api_key, after_queue, dialog, r2_bucket, wallpapers,
                   wallpaper_stats, bp>>

\* the stop button
stop_batch_processing ==
    /\ UserInput
    /\ clicks' = clicks + 1
    /\ stop_btn = "normal"
    /\ stop_processing' = TRUE
    /\ UNCHANGED <<pipeline, surroundings, root, image_files, auto_generate,
                   api_key, is_processing, start_btn, stop_btn,
                   processing_results, thread, after_queue, dialog, r2_bucket,
                   wallpapers, wallpaper_stats, threads_started, bp>>

\* the clear button
clear_results ==
    /\ UserInput
    /\ clicks' = clicks + 1
    /\ processing_results # <<>>
    /\ processing_results' = <<>>
    /\ UNCHANGED <<pipeline, surroundings, root, image_files, auto_generate,
                   api_key, is_processing, stop_processing, start_btn, stop_btn,
                   thread, after_queue, dialog, r2_bucket, wallpapers,
                   wallpaper_stats, threads_started, bp>>

(***************************************************************************)
(* BatchWallpaperPublisher: the callbacks the main loop runs.              *)
(***************************************************************************)
\* _batch_processing_complete: the log lines and the modal messagebox
batch_processing_complete ==
    /\ root = "mainloop"
    /\ after_queue # <<>>
    /\ Head(after_queue).callback = "complete"
    /\ dialog' = Head(after_queue)
    /\ after_queue' = Tail(after_queue)
    /\ UNCHANGED <<clicks, pipeline, surroundings, root, image_files, auto_generate,
                   api_key, is_processing, stop_processing, start_btn, stop_btn,
                   processing_results, thread, r2_bucket, wallpapers,
                   wallpaper_stats, threads_started, bp>>

\* the user closes the messagebox
DismissDialog ==
    /\ root = "mainloop"
    /\ dialog # <<>>
    /\ dialog' = <<>>
    /\ UNCHANGED <<clicks, pipeline, surroundings, root, image_files, auto_generate,
                   api_key, is_processing, stop_processing, start_btn, stop_btn,
                   processing_results, thread, after_queue, r2_bucket,
                   wallpapers, wallpaper_stats, threads_started, bp>>

\* _reset_processing_state; it runs while the messagebox is up as well
reset_processing_state ==
    /\ root = "mainloop"
    /\ after_queue # <<>>
    /\ Head(after_queue).callback = "reset"
    /\ after_queue' = Tail(after_queue)
    /\ is_processing' = FALSE
    /\ stop_processing' = FALSE
    /\ start_btn' = check_ready_state(image_files, auto_generate, api_key, FALSE)
    /\ stop_btn' = "disabled"
    /\ UNCHANGED <<clicks, pipeline, surroundings, root, image_files, auto_generate,
                   api_key, processing_results, thread, dialog, r2_bucket,
                   wallpapers, wallpaper_stats, threads_started, bp>>

(***************************************************************************)
(* BatchWallpaperPublisher._batch_processing_thread                        *)
(***************************************************************************)
\* what the steps of the thread leave alone
window == <<root, image_files, auto_generate, api_key, is_processing,
            stop_processing, start_btn, stop_btn, dialog, threads_started,
            clicks, bp>>

\* genai.configure and GenerativeModel, which the outer except catches when
\* they raise, and total_images = len(self.image_files)
ConfigureAi ==
    /\ thread.at = "setup"
    /\ \E raises \in (IF auto_generate /\ api_key /\ faults_left > 0
                      THEN BOOLEAN ELSE {FALSE}) :
          IF raises
          THEN /\ faults_left' = faults_left - 1
               /\ thread' = [thread EXCEPT !.at = "finally"]
          ELSE /\ faults_left' = faults_left
               /\ thread' = [thread EXCEPT
                               !.model = auto_generate /\ api_key,
                               !.total_images = Len(image_files),
                               !.at = "enumerate"]
    /\ UNCHANGED <<source, wallpaper_metadata, today, disk, pc, idx, validation,
                   results, locals, ret, escaped, inject_calls, surroundings,
                   window, processing_results, after_queue, r2_bucket,
                   wallpapers, wallpaper_stats>>

\* enumerate(self.image_files): the list the loop runs over
EnumerateImages ==
    /\ thread.at = "enumerate"
    /\ thread' = [thread EXCEPT !.images = image_files, !.i = 0, !.at = "loop"]
    /\ UNCHANGED <<pipeline, surroundings, window, processing_results,
                   after_queue, r2_bucket, wallpapers, wallpaper_stats>>

\* a loop that does not look at self.stop_processing
LoopTopIgnoresStop ==
    /\ thread.at = "loop"
    /\ thread' = IF thread.i = Len(thread.images)
                 THEN [thread EXCEPT !.at = "complete"]
                 ELSE [thread EXCEPT !.i = @ + 1, !.at = "image"]
    /\ UNCHANGED <<pipeline, surroundings, window, processing_results,
                   after_queue, r2_bucket, wallpapers, wallpaper_stats>>

\* the head of the for loop and `if self.stop_processing: break`
LoopTop ==
    /\ thread.at = "loop"
    /\ thread' = IF thread.i = Len(thread.images) \/ stop_processing
                 THEN [thread EXCEPT !.at = "complete"]
                 ELSE [thread EXCEPT !.i = @ + 1, !.at = "image"]
    /\ UNCHANGED <<pipeline, surroundings, window, processing_results,
                   after_queue, r2_bucket, wallpapers, wallpaper_stats>>

\* `model if (self.auto_generate_var.get() and api_key) else None`: model is
\* not bound when the AI setup was skipped, and the inner except catches that
CallProcessSingleImage ==
    /\ thread.at = "image"
    /\ thread' = IF auto_generate /\ api_key /\ ~thread.model
                 THEN [thread EXCEPT !.at = "except"]
                 ELSE [thread EXCEPT !.ai_model = auto_generate /\ api_key,
                                     !.at = "metadata"]
    /\ UNCHANGED <<pipeline, surroundings, window, processing_results,
                   after_queue, r2_bucket, wallpapers, wallpaper_stats>>

\* the default metadata of _process_single_image
DefaultMetadata ==
    [title |-> PyStr(<<"Stem">>),
     description |-> PyStr(<<"High-quality", "mobile", "wallpaper">>),
     category |-> PyStr(<<"abstract">>),
     tags |-> PyList(<<PyStr(<<"wallpaper">>), PyStr(<<"mobile">>),
                       PyStr(<<"hd">>)>>)]

\* wallpaper_metadata.update(ai_metadata), or the default metadata when there
\* is no model or _generate_ai_metadata gave None; then process_all_resolutions
BuildMetadata ==
    /\ thread.at = "metadata"
    /\ \E ai \in (IF thread.ai_model /\ auto_generate
                  THEN {DefaultMetadata, FullDict} ELSE {DefaultMetadata}) :
          CallProcess(thread.images[thread.i], ai @@ DefaultMetadata)
    /\ thread' = [thread EXCEPT !.at = "process"]
    /\ UNCHANGED <<surroundings, window, processing_results, after_queue,
                   r2_bucket, wallpapers, wallpaper_stats>>

\* the dictionaries _process_single_image returns
Failed_result(image_path, message) ==
    [success |-> FALSE, image_path |-> image_path, error |-> message]

Published_result(image_path, id, urls) ==
    [success |-> TRUE, image_path |-> image_path, wallpaper_id |-> id,
     uploaded_urls |-> urls]

\* _process_single_image without `if not processing_result['success']`
CheckProcessingResultIgnored ==
    /\ thread.at = "process"
    /\ pc = "done"
    /\ thread' = IF "processed_files" \notin DOMAIN results
                 THEN [thread EXCEPT
                         !.result = Failed_result(thread.images[thread.i],
                                                  "'processed_files'"),
                         !.at = "count"]
                 ELSE [thread EXCEPT !.resolution = 1, !.uploaded_urls = <<>>,
                                     !.at = "upload"]
    /\ UNCHANGED <<pipeline, surroundings, window, processing_results,
                   after_queue, r2_bucket, wallpapers, wallpaper_stats>>

\* `if not processing_result['success']: return {'success': False, ...}`
CheckProcessingResult ==
    /\ thread.at = "process"
    /\ pc = "done"
    /\ thread' = IF escaped
                 THEN [thread EXCEPT
                         !.result = Failed_result(thread.images[thread.i],
                                                  "exception"),
                         !.at = "count"]
                 ELSE IF ~results.success
                 THEN [thread EXCEPT
                         !.result = Failed_result(thread.images[thread.i],
                                                  <<"Image processing failed",
                                                    reported_error(results)>>),
                         !.at = "count"]
                 ELSE [thread EXCEPT !.resolution = 1, !.uploaded_urls = <<>>,
                                     !.at = "upload"]
    /\ UNCHANGED <<pipeline, surroundings, window, processing_results,
                   after_queue, r2_bucket, wallpapers, wallpaper_stats>>

\* the content type the upload declares for a file name
ContentType(ext) ==
    CASE ext = ".webp" -> "image/webp"
      [] ext = ".png"  -> "image/png"
      [] OTHER         -> "image/jpeg"

\* one turn of the upload loop: open(file_path, 'rb'), upload_fileobj and
\* uploaded_urls[f"{resolution}_url"]
UploadToR2 ==
    /\ thread.at = "upload"
    /\ LET name == ResolutionOrder[thread.resolution]
           next == IF thread.resolution = Len(ResolutionOrder)
                   THEN "insert" ELSE "upload"
       IN  IF name \in DOMAIN results.processed_files
           THEN LET file_path == results.processed_files[name]
                IN  /\ file_path \in DOMAIN disk
                    /\ r2_bucket' =
                           (file_path :>
                              [ContentType |-> ContentType(file_path.ext),
                               body |-> disk[file_path]]) @@ r2_bucket
                    /\ thread' = [thread EXCEPT
                                    !.uploaded_urls = (name :> file_path) @@ @,
                                    !.resolution = @ + 1,
                                    !.at = next]
           ELSE /\ r2_bucket' = r2_bucket
                /\ thread' = [thread EXCEPT !.resolution = @ + 1, !.at = next]
    /\ UNCHANGED <<pipeline, surroundings, window, processing_results,
                   after_queue, wallpapers, wallpaper_stats>>

\* table('wallpapers').insert(wallpaper_data).execute(): a row with its id,
\* or an answer without data
InsertWallpaper ==
    /\ thread.at = "insert"
    /\ "medium" \in DOMAIN thread.uploaded_urls
    /\ \E no_data \in (IF faults_left > 0 THEN BOOLEAN ELSE {FALSE}) :
          IF no_data
          THEN /\ faults_left' = faults_left - 1
               /\ wallpapers' = wallpapers
               /\ thread' = [thread EXCEPT
                               !.result = Failed_result(thread.images[thread.i],
                                              "Failed to save to database"),
                               !.at = "count"]
          ELSE /\ faults_left' = faults_left
               /\ wallpapers' =
                      Append(wallpapers,
                             [id |-> Len(wallpapers) + 1,
                              title |-> wallpaper_metadata.title,
                              image_url |-> thread.uploaded_urls["medium"],
                              urls |-> thread.uploaded_urls])
               /\ thread' = [thread EXCEPT !.wallpaper_id = Len(wallpapers) + 1,
                                           !.at = "stats"]
    /\ UNCHANGED <<source, wallpaper_metadata, today, disk, pc, idx, validation,
                   results, locals, ret, escaped, inject_calls, surroundings,
                   window, processing_results, after_queue, r2_bucket,
                   wallpaper_stats>>

\* table('wallpaper_stats').insert(stats_data).execute()
InsertStats ==
    /\ thread.at = "stats"
    /\ wallpaper_stats' = Append(wallpaper_stats, thread.wallpaper_id)
    /\ thread' = [thread EXCEPT !.at = "cleanup"]
    /\ UNCHANGED <<pipeline, surroundings, window, processing_results,
                   after_queue, r2_bucket, wallpapers>>

\* Path(file_path).unlink() for every processed file, and the result of a
\* published image
CleanUp ==
    /\ thread.at = "cleanup"
    /\ disk' = [f \in DOMAIN disk \ {results.processed_files[p] :
                                       p \in DOMAIN results.processed_files}
                  |-> disk[f]]
    /\ thread' = [thread EXCEPT
                    !.result = Published_result(thread.images[thread.i],
                                                thread.wallpaper_id,
                                                thread.uploaded_urls),
                    !.at = "count"]
    /\ UNCHANGED <<source, wallpaper_metadata, today, pc, idx, validation,
                   results, locals, ret, faults_left, escaped, inject_calls,
                   surroundings, window, processing_results, after_queue,
                   r2_bucket, wallpapers, wallpaper_stats>>

\* a step after processing raises (the file cannot be opened, the upload or
\* an insert fails): `except Exception as e` of _process_single_image
PublishStepRaises ==
    /\ thread.at \in {"upload", "insert", "stats"}
    /\ LET must == \/ /\ thread.at = "upload"
                      /\ ResolutionOrder[thread.resolution]
                            \in DOMAIN results.processed_files
                      /\ results.processed_files[ResolutionOrder[thread.resolution]]
                            \notin DOMAIN disk
                   \/ /\ thread.at = "insert"
                      /\ "medium" \notin DOMAIN thread.uploaded_urls
       IN  /\ must \/ faults_left > 0
           /\ faults_left' = IF must THEN faults_left ELSE faults_left - 1
    /\ thread' = [thread EXCEPT
                    !.result = Failed_result(thread.images[thread.i], thread.at),
                    !.at = "count"]
    /\ UNCHANGED <<source, wallpaper_metadata, today, disk, pc, idx, validation,
                   results, locals, ret, escaped, inject_calls, surroundings,
                   window, processing_results, after_queue, r2_bucket,
                   wallpapers, wallpaper_stats>>

\* a loop body that appends the results of published images only
CountResultAppendsPublished ==
    /\ thread.at = "count"
    /\ thread' = [thread EXCEPT
                    !.successful_uploads =
                        IF thread.result.success THEN @ + 1 ELSE @,
                    !.failed_uploads =
                        IF thread.result.success THEN @ ELSE @ + 1,
                    !.appended = IF thread.result.success THEN @ + 1 ELSE @,
                    !.result = <<>>,
                    !.at = "loop"]
    /\ processing_results' = IF thread.result.success
                             THEN Append(processing_results, thread.result)
                             ELSE processing_results
    /\ UNCHANGED <<pipeline, surroundings, window, after_queue, r2_bucket,
                   wallpapers, wallpaper_stats>>

\* back in the loop: one of the two counters goes up and the result is
\* appended; `appended` counts the appends of this run
CountResult ==
    /\ thread.at = "count"
    /\ thread' = [thread EXCEPT
                    !.successful_uploads =
                        IF thread.result.success THEN @ + 1 ELSE @,
                    !.failed_uploads =
                        IF thread.result.success THEN @ ELSE @ + 1,
                    !.appended = @ + 1,
                    !.result = <<>>,
                    !.at = "loop"]
    /\ processing_results' = Append(processing_results, thread.result)
    /\ UNCHANGED <<pipeline, surroundings, window, after_queue, r2_bucket,
                   wallpapers, wallpaper_stats>>

\* the inner except: failed_uploads += 1 and the error result is appended
IterationRaised ==
    /\ thread.at = "except"
    /\ thread' = [thread EXCEPT !.failed_uploads = @ + 1,
                                !.appended = @ + 1,
                                !.at = "loop"]
    /\ processing_results' =
           Append(processing_results,
                  Failed_result(thread.images[thread.i], "model"))
    /\ UNCHANGED <<pipeline, surroundings, window, after_queue, r2_bucket,
                   wallpapers, wallpaper_stats>>

\* after the loop: root.after(0, ... _batch_processing_complete(...))
ScheduleComplete ==
    /\ thread.at = "complete"
    /\ after_queue' = Append(after_queue,
                             [callback |-> "complete",
                              successful |-> thread.successful_uploads,
                              failed |-> thread.failed_uploads,
                              total |-> thread.total_images])
    /\ thread' = [thread EXCEPT !.at = "finally"]
    /\ UNCHANGED <<pipeline, surroundings, window, processing_results,
                   r2_bucket, wallpapers, wallpaper_stats>>

\* a thread that ends without its finally clause
ThreadEndsWithoutReset ==
    /\ thread.at = "finally"
    /\ thread' = NoThread
    /\ UNCHANGED <<pipeline, surroundings, window, processing_results,
                   after_queue, r2_bucket, wallpapers, wallpaper_stats>>

\* finally: root.after(0, self._reset_processing_state); the thread ends
ThreadFinally ==
    /\ thread.at = "finally"
    /\ after_queue' = Append(after_queue, [callback |-> "reset"])
    /\ thread' = NoThread
    /\ UNCHANGED <<pipeline, surroundings, window, processing_results,
                   r2_bucket, wallpapers, wallpaper_stats>>

\* the steps of the batch thread and of the invocation it is in, but for
\* StartProcess and ResizeImage
ThreadStep ==
    \/ GenerateFilename
    \/ OpenImage
    \/ EnhanceImage
    \/ SaveImage
    \/ InjectExif
    \/ InjectExifFails
    \/ InjectIptc
    \/ InjectIptcFails
    \/ GetSize
    \/ RaiseInProfile
    \/ RecordResult
    \/ ConfigureAi
    \/ EnumerateImages
    \/ LoopTop
    \/ CallProcessSingleImage
    \/ BuildMetadata
    \/ CheckProcessingResult
    \/ UploadToR2
    \/ InsertWallpaper
    \/ InsertStats
    \/ CleanUp
    \/ PublishStepRaises
    \/ CountResult
    \/ IterationRaised
    \/ ScheduleComplete
    \/ ThreadFinally

\* the callbacks the Tk main loop runs
MainLoopStep ==
    \/ batch_processing_complete
    \/ reset_processing_state

NextCallers ==
    \/ StartProcess
    \/ GenerateFilename
    \/ OpenImage
    \/ ResizeImage
    \/ EnhanceImage
    \/ SaveImage
    \/ InjectExif
    \/ InjectExifFails
    \/ InjectIptc
    \/ InjectIptcFails
    \/ GetSize
    \/ RaiseInProfile
    \/ RecordResult
    \/ BatchProcessLoop
    \/ BatchProcessCount
    \/ select_folder
    \/ ToggleAutoGenerate
    \/ start_batch_processing
    \/ stop_batch_processing
    \/ clear_results
    \/ batch_processing_complete
    \/ DismissDialog
    \/ reset_processing_state
    \/ ConfigureAi
    \/ EnumerateImages
    \/ LoopTop
    \/ CallProcessSingleImage
    \/ BuildMetadata
    \/ CheckProcessingResult
    \/ UploadToR2
    \/ InsertWallpaper
    \/ InsertStats
    \/ CleanUp
    \/ PublishStepRaises
    \/ CountResult
    \/ IterationRaised
    \/ ScheduleComplete
    \/ ThreadFinally

\* Either batch_process is called with a list of paths, or the publisher's
\* window is up as __init__ left it; no invocation is under way.
InitCallers ==
    /\ bp \in {NoBatchProcess}
          \cup {[at |-> "loop", image_paths |-> paths, i |-> 0,
                 results |-> [total_images |-> Len(paths), successful |-> 0,
                              failed |-> 0, results |-> <<>>, errors |-> <<>>]] :
                paths \in PathLists}
    /\ root = IF bp.at = "none" THEN "mainloop" ELSE "none"
    /\ api_key \in (IF root = "mainloop" THEN BOOLEAN ELSE {FALSE})
    /\ auto_generate = (root = "mainloop")
    /\ image_files = <<>>
    /\ is_processing = FALSE
    /\ stop_processing = FALSE
    /\ start_btn = "disabled"
    /\ stop_btn = "disabled"
    /\ processing_results = <<>>
    /\ thread = NoThread
    /\ after_queue = <<>>
    /\ dialog = <<>>
    /\ r2_bucket = <<>>
    /\ wallpapers = <<>>
    /\ wallpaper_stats = <<>>
    /\ threads_started = 0
    /\ clicks = 0
    /\ source = NoSource
    /\ wallpaper_metadata = PyNone
    /\ today = 1
    /\ disk = InitialDisk
    /\ pc = "done"
    /\ idx = 0
    /\ validation = NoValidation
    /\ results = <<>>
    /\ output_filename = NoName
    /\ img = NoImage
    /\ processed = NoImage
    /\ save_kwargs = NoKwargs
    /\ inject_result = ""
    /\ ret = NoReturn
    /\ faults_left = BatchFaults
    /\ escaped = FALSE
    /\ inject_calls = 0
    /\ run = 1
    /\ previous = <<>>
    /\ changes = 0
    /\ now = 0
    /\ procs = <<>>
    /\ shared = <<>>

SpecCallers == InitCallers /\ [][NextCallers]_vars

\* The thread and the invocation it is in keep running, and the main loop
\* runs the callbacks handed to it; the user need not do anything.
\* StartProcess is enabled exactly when pc = "validate" and ResizeImage
\* exactly when pc = "resize", and each moves pc on; their weak fairness is
\* written without ENABLED, which spares evaluating the float arithmetic of
\* the two steps once more in every state.
SpecCallersFair ==
    /\ SpecCallers
    /\ WF_vars(ThreadStep)
    /\ []<>(pc # "validate")
    /\ []<>(pc # "resize")
    /\ WF_vars(MainLoopStep)

\* C25: cancellation in the batch publisher takes effect between images
\* only: once stop_batch_processing has set the stop flag the batch thread
\* begins no further loop iteration, while the image in flight goes through
\* its steps, so that whenever the thread stands between two iterations or
\* past the loop every iteration it began has appended its result.
C25_StopBetweenImages ==
    /\ [][stop_processing /\ thread'.at # "none" => thread'.i = thread.i]_vars
    /\ [](thread.at \in {"loop", "complete", "finally"} =>
            thread.appended = thread.i)

\* the flag was set while the first of two images was in flight: the thread
\* left the loop after that image, whose result is in processing_results
C25_Witness ==
    /\ stop_processing
    /\ thread.at = "complete"
    /\ Len(thread.images) = 2 /\ thread.i = 1
    /\ Len(processing_results) = 1
    /\ processing_results[1].image_path = thread.images[1]

\* the paths batch_process is through with
PathsDone == {bp.image_paths[j] : j \in 1..bp.i}

\* C26: batch accounting is exact.  In batch_process, after every iteration
\* successful + failed is the number of paths iterated, so that at the
\* return it is total_images, the length of the list; a path is counted on
\* one side only, and for a list of distinct paths the two dictionaries have
\* one key for every count.  In the batch thread, after every iteration
\* successful_uploads + failed_uploads is the number of images iterated and
\* the number of results appended in this run, so that a loop that ran to
\* its end counts every image of the list.
C26_ExactAccounting ==
    /\ bp.at \in {"loop", "returned"} =>
          /\ bp.results.successful + bp.results.failed = bp.i
          /\ bp.results.total_images = Len(bp.image_paths)
          /\ bp.at = "returned" =>
                bp.results.successful + bp.results.failed
                    = bp.results.total_images
          /\ DOMAIN bp.results.results \cup DOMAIN bp.results.errors = PathsDone
          /\ Cardinality(PathsDone) = bp.i =>
                /\ Cardinality(DOMAIN bp.results.results) = bp.results.successful
                /\ Cardinality(DOMAIN bp.results.errors) = bp.results.failed
    /\ thread.at \in {"loop", "complete"} =>
          /\ thread.successful_uploads + thread.failed_uploads = thread.i
          /\ thread.appended = thread.i
          /\ (thread.at = "complete" /\ ~stop_processing) =>
                thread.successful_uploads + thread.failed_uploads
                    = Len(thread.images)

\* a run over two images that was not stopped: one published, one failed
C26_Witness ==
    /\ thread.at = "complete" /\ ~stop_processing
    /\ thread.successful_uploads = 1 /\ thread.failed_uploads = 1
    /\ Len(thread.images) = 2

C28_StepsInOrder ==
    /\ [][r2_bucket' # r2_bucket =>
             pc = "done" /\ results.success /\ Produced = FourProfiles]_vars
    /\ [][wallpapers' # wallpapers =>
             /\ DOMAIN thread.uploaded_urls = FourProfiles
             /\ \A p \in FourProfiles :
                   /\ thread.uploaded_urls[p] = results.processed_files[p]
                   /\ results.processed_files[p] \in DOMAIN r2_bucket]_vars
    /\ [][~(DOMAIN disk \subseteq DOMAIN disk') =>
             /\ wallpapers # <<>>
             /\ wallpapers[Len(wallpapers)].id = thread.wallpaper_id
             /\ \A p \in FourProfiles :
                   wallpapers[Len(wallpapers)].urls[p] = results.processed_files[p]]_vars
    /\ [](thread.at = "count" /\ ~thread.result.success =>
             \A p \in Produced : results.processed_files[p] \in DOMAIN disk)
    /\ [](thread.at = "count" /\ thread.result.success =>
             /\ wallpaper_stats # <<>>
             /\ wallpaper_stats[Len(wallpaper_stats)] = thread.result.wallpaper_id)

\* an image went through the four steps: its artifacts are in the bucket,
\* its row is in the catalog and its local files are gone
C28_Witness ==
    /\ thread.at = "count" /\ thread.result.success
    /\ Len(wallpapers) = 1
    /\ \A p \in FourProfiles :
          /\ results.processed_files[p] \in DOMAIN r2_bucket
          /\ results.processed_files[p] \notin DOMAIN disk

====
